---------------------------- MODULE Spec2Model ----------------------------
(***************************************************************************)
(* A model of the blog front end: the API adapter of src/src/lib/api.ts    *)
(* (request headers, the 429 interception, the success/error discriminant) *)
(* and the comment thread of src/src/components/BlogComment.tsx (the       *)
(* recursive CommentItem render and the reply / delete / report / create   *)
(* mutations driven through useMutation).                                  *)
(*                                                                         *)
(* The specifications share the variables:                                 *)
(*   SpecApi     one adapter call at a time against an arbitrary backend,  *)
(*               with the stored token and the rate-limit handler changing *)
(*               between its steps;                                        *)
(*   Spec        one CommentItem and the top-level composer, their local   *)
(*               state and their mutations;                                *)
(*   SpecThread  the same item while its comment is fetched again and the  *)
(*               viewer logs out;                                          *)
(*   SpecRender  the recursive render of a comment tree for a viewer;      *)
(*   SpecAsset   resolveAssetUrl on asset URLs and base URLs;              *)
(*   SpecTransform  the objects the adapter builds from backend objects;   *)
(*   SpecFeed    the home page's feed, its filter and its fetches;         *)
(*   SpecClock   renders of one thread as time passes;                     *)
(*   SpecOps     the exported operations of the adapter on any response;   *)
(*   SpecForm    the Login, Register, Write and MyProfile forms;           *)
(*   SpecDetail  the blog detail page for a viewer;                        *)
(*   SpecTags    the TagInput component.                                   *)
(***************************************************************************)
EXTENDS Integers, Sequences, FiniteSets, TLC

VARIABLES
  authToken,         \* localStorage['auth_token']: Null or Some(string)
  rateLimitHandler,  \* api.ts:21, the registered handler: Null or Some(name)
  registrations,     \* the handlers passed to setRateLimitHandler, in order
  handlerLog,        \* handler invocations during the current adapter call
  call,              \* the adapter call in flight (SpecApi)
  requests,          \* the requests fetch() was given during the current call
  viewer,            \* useAuth(): [isAuthenticated, user]
  comment,           \* the `comment` prop of the CommentItem (Spec)
  showReplyBox,      \* CommentItem local state, BlogComment.tsx:49-54
  showReplies,
  replyText,
  isReporting,
  reportReason,
  isDeleting,
  newComment,        \* BlogComment local state, BlogComment.tsx:388
  isPending,         \* isPending of the four mutations
  event,             \* what the last step did: toast, request, settled result
  tree,              \* the fetched comment tree (SpecRender)
  expanded,          \* showReplies of every CommentItem of the tree
  API_BASE_URL,      \* api.ts:1, import.meta.env.VITE_API_BASE_URL (SpecAsset)
  asset,             \* the asset URL being resolved and what came of it
  transformed,       \* a backend object and what the adapter made of it (SpecTransform)
  feed,              \* Home: page, tag filter, accumulated blogs, fetches (SpecFeed)
  form,              \* a form page and its submissions in flight (SpecForm)
  detail,            \* BlogDetail: the blog fetched and what is shown (SpecDetail)
  tagInput,          \* TagInput: the tags and the text typed (SpecTags)
  clock,             \* the time and the renders of the thread at it (SpecClock)
  settled            \* an exported operation, its response and its result (SpecOps)

apiVars == <<authToken, rateLimitHandler, registrations, handlerLog, call, requests>>
itemVars == <<comment, showReplyBox, showReplies, replyText, isReporting,
              reportReason, isDeleting, newComment, isPending, event>>
renderVars == <<tree, expanded>>
assetVars == <<API_BASE_URL, asset>>
pageVars == <<transformed, feed, form, detail, tagInput, clock, settled>>

vars == <<apiVars, viewer, itemVars, renderVars, assetVars, pageVars>>

-----------------------------------------------------------------------------
(* Optional values: JavaScript's null / undefined against a present value. *)

Null == <<>>
Some(x) == <<x>>
IsSome(o) == o # Null
Get(o) == o[1]

\* JavaScript truthiness of an optional string: null and '' are falsy.
Truthy(o) == IsSome(o) /\ Get(o) # ""

\* a || b on optional strings.
OrElse(a, b) == IF Truthy(a) THEN a ELSE b

-----------------------------------------------------------------------------
(* Values of the wire format.                                              *)

\* A JSON field that may be absent, a string, or some non-string value.
Absent == <<>>
Str(s) == <<"string", s>>
NonString == <<"other">>
IsString(v) == Len(v) = 2 /\ v[1] = "string"

\* typeof v === 'string' ? v : null   (api.ts:156-157)
StringOrNull(v) == IF IsString(v) THEN Some(v[2]) ELSE Null

\* A JavaScript number | NaN | undefined, as the rate-limit handler receives it.
Num(n) == [t |-> "number", v |-> n]
NaN == [t |-> "NaN", v |-> 0]
Undefined == [t |-> "undefined", v |-> 0]

TooManyRequests == "Too many requests. Please slow down and try again."
NetworkError == "Network error. Please try again."
InvalidResponseFormat == "Invalid response format"

\* `Error: ${response.status}`   (api.ts:158)
StatusError(status) ==
  CASE status = 200 -> "Error: 200"
    [] status = 400 -> "Error: 400"
    [] status = 500 -> "Error: 500"
    [] OTHER -> "Error: ?"

\* response.ok: the status is in 200..299.
ResponseOk(status) == status >= 200 /\ status <= 299

-----------------------------------------------------------------------------
(* parseInt(header, 10) on a header value given as a sequence of           *)
(* characters: leading white space is skipped, one sign is accepted, the   *)
(* longest prefix of digits is read, and no digit at all gives NaN.        *)

DigitChars == <<"0", "1", "2", "3", "4", "5", "6", "7", "8", "9">>
IsDigit(c) == \E d \in 1..Len(DigitChars) : DigitChars[d] = c
DigitValue(c) == (CHOOSE d \in 1..Len(DigitChars) : DigitChars[d] = c) - 1

RECURSIVE SkipWhitespace(_)
SkipWhitespace(s) ==
  IF s # <<>> /\ Head(s) = " " THEN SkipWhitespace(Tail(s)) ELSE s

RECURSIVE ReadDigits(_, _)
ReadDigits(s, acc) ==
  IF s # <<>> /\ IsDigit(Head(s))
    THEN ReadDigits(Tail(s), acc * 10 + DigitValue(Head(s)))
    ELSE acc

parseInt(s) ==
  LET t == SkipWhitespace(s)
      negative == t # <<>> /\ Head(t) = "-"
      u == IF t # <<>> /\ Head(t) \in {"+", "-"} THEN Tail(t) ELSE t
  IN IF u = <<>> \/ ~IsDigit(Head(u))
       THEN NaN
       ELSE Num(IF negative THEN 0 - ReadDigits(u, 0) ELSE ReadDigits(u, 0))

\* retryAfterHeader ? parseInt(retryAfterHeader, 10) : undefined  (api.ts:138)
\* headers.get gives null for a missing header; '' is falsy as well.
RetryAfterOf(header) ==
  IF IsSome(header) /\ Get(header) # <<>> THEN parseInt(Get(header)) ELSE Undefined

-----------------------------------------------------------------------------
(* What the backend can answer.                                            *)

\* Number of distinct handlers that get registered.
NumHandlers == 2

Handlers == 1..NumHandlers
\* What localStorage can hold under 'auth_token': nothing, '', or a token.
StoredTokens == {Null, Some(""), Some("t1")}

\* The `data` of an envelope: an array (of comments or blogs, here only
\* named) or an object with the fields the callers read.
Payload(isArray, items, status, count) ==
  [isArray |-> isArray, items |-> items, status |-> status,
   spam_report_count |-> count]
ObjectPayload == Payload(FALSE, <<>>, "active", 1)
ArrayPayload == Payload(TRUE, <<"c1", "c2">>, "", 0)
BackendPagination == [page |-> 1, limit |-> 50, total |-> 2, pages |-> 1]

Envelope(success, message, error, data, pagination) ==
  [kind |-> "envelope", success |-> success, message |-> message,
   error |-> error, data |-> data, pagination |-> pagination]

\* response.json() rejects (the body is not JSON).
UndecodableBody ==
  [kind |-> "undecodable", success |-> FALSE, message |-> Absent,
   error |-> Absent, data |-> Null, pagination |-> Null]
\* The body is the JSON value null: reading a field of it raises a TypeError.
JsonNullBody ==
  [kind |-> "null", success |-> FALSE, message |-> Absent,
   error |-> Absent, data |-> Null, pagination |-> Null]

FailureEnvelopes ==
  {Envelope(FALSE, m, e, Null, Null) :
     m \in {Absent, Str(""), Str("X"), NonString},
     e \in {Absent, Str("E"), NonString}}

SuccessEnvelopes ==
  {Envelope(TRUE, m, Absent, d, p) :
     m \in {Str("OK")},
     d \in {Null, Some(ObjectPayload), Some(ArrayPayload)},
     p \in {Null, Some(BackendPagination)}}

Bodies == FailureEnvelopes \cup SuccessEnvelopes \cup {UndecodableBody, JsonNullBody}

\* Retry-After header values: absent, empty, "30", "12s", " 7", an HTTP date.
RetryAfterHeaders ==
  {Null, Some(<<>>), Some(<<"3", "0">>), Some(<<"1", "2", "s">>),
   Some(<<" ", "7">>), Some(<<"W", "e", "d">>)}

\* fetch() rejected: no response at all.
TransportFailure ==
  [transport |-> "fail", status |-> 0, retryAfter |-> Null, body |-> UndecodableBody]

HttpResponse(status, retryAfter, body) ==
  [transport |-> "ok", status |-> status, retryAfter |-> retryAfter, body |-> body]

Responses ==
  {TransportFailure}
    \cup {HttpResponse(st, Null, b) : st \in {200, 500}, b \in Bodies}
    \cup {HttpResponse(429, h, b) :
            h \in RetryAfterHeaders,
            b \in {UndecodableBody, Envelope(FALSE, Str("X"), Str("E"), Null, Null)}}

NoResponse ==
  [transport |-> "none", status |-> 0, retryAfter |-> Null, body |-> UndecodableBody]

-----------------------------------------------------------------------------
(* The adapter's results: a settled promise.                               *)

\* { error: message }
ErrorResult(message) == [kind |-> "resolved", data |-> Null, error |-> Some(message)]
\* { data: d }, d possibly undefined (Null)
DataResult(d) == [kind |-> "resolved", data |-> d, error |-> Null]
\* the promise rejected
Rejected == [kind |-> "rejected", data |-> Null, error |-> Null]
NoResult == [kind |-> "pending", data |-> Null, error |-> Null]

-----------------------------------------------------------------------------
(* Request headers.                                                        *)

ApplicationJson == "application/json"
Bearer(token) == "Bearer " \o token

\* options.headers of a call: none of the call sites of api.ts passes any.
NoHeaders == [ContentType |-> Null, Authorization |-> Null]

\* api.ts:114-127: { ...options.headers }, then Content-Type unless the body
\* is FormData, then Authorization when the stored token is truthy.
apiRequestHeaders(optionHeaders, isFormDataBody, token) ==
  LET spread == optionHeaders
      typed == IF ~isFormDataBody
                 THEN [spread EXCEPT !.ContentType = Some(ApplicationJson)]
                 ELSE spread
  IN IF Truthy(token)
       THEN [typed EXCEPT !.Authorization = Some(Bearer(Get(token)))]
       ELSE typed

\* api.ts:175-184: Content-Type first, then ...options.headers over it, then
\* Authorization when the stored token is truthy.
apiRequestWithPaginationHeaders(optionHeaders, token) ==
  LET spread == [ContentType |-> IF IsSome(optionHeaders.ContentType)
                                   THEN optionHeaders.ContentType
                                   ELSE Some(ApplicationJson),
                 Authorization |-> optionHeaders.Authorization]
  IN IF Truthy(token)
       THEN [spread EXCEPT !.Authorization = Some(Bearer(Get(token)))]
       ELSE spread

\* Mutant: the direct fetch is sent without the Authorization header.
getCommentsHeaders_NoAuthorization(token) ==
  [ContentType |-> Some(ApplicationJson), Authorization |-> Null]

\* api.ts:630-636: the direct fetch of getComments builds its own headers.
getCommentsHeaders(token) ==
  LET base == [ContentType |-> Some(ApplicationJson), Authorization |-> Null]
  IN IF Truthy(token)
       THEN [base EXCEPT !.Authorization = Some(Bearer(Get(token)))]
       ELSE base

-----------------------------------------------------------------------------
(* Response handling: the three request paths.                             *)

\* What one request path did with a response: `thrown` when an exception
\* left the function, `notify` the argument the rate-limit handler is called
\* with (Null: the handler is not called).
Outcome(result, notify) == [thrown |-> FALSE, result |-> result, notify |-> notify]
Throw == [thrown |-> TRUE, result |-> Rejected, notify |-> Null]

\* response.json().catch(() => ({ success: false, message: 'Invalid response
\* format' }))   (api.ts:149-152)
DecodeBody(body) ==
  IF body.kind = "undecodable"
    THEN Envelope(FALSE, Str(InvalidResponseFormat), Absent, Null, Null)
    ELSE body

\* Mutant: the `error` field of the body is preferred to `message`.
errorMessage_ErrorFieldFirst(responseData, status) ==
  Get(OrElse(OrElse(StringOrNull(responseData.error),
                    StringOrNull(responseData.message)),
             Some(StatusError(status))))

\* api.ts:155-158
errorMessage(responseData, status) ==
  Get(OrElse(OrElse(StringOrNull(responseData.message),
                    StringOrNull(responseData.error)),
             Some(StatusError(status))))

\* api.ts:130-164, the body of the try block.
apiRequestTry(resp) ==
  IF resp.transport = "fail" THEN Throw
  ELSE IF resp.status = 429
    THEN Outcome(ErrorResult(TooManyRequests), Some(RetryAfterOf(resp.retryAfter)))
  ELSE LET responseData == DecodeBody(resp.body)
       IN IF responseData.kind = "null" THEN Throw
          ELSE IF ~ResponseOk(resp.status) \/ ~responseData.success
            THEN Outcome(ErrorResult(errorMessage(responseData, resp.status)), Null)
          ELSE Outcome(DataResult(responseData.data), Null)

\* Mutant: no catch block around the request.
apiRequest_NoCatch(resp) == apiRequestTry(resp)

\* api.ts:129-168: try { ... } catch { return { error: 'Network error...' } }
apiRequest(resp) ==
  LET o == apiRequestTry(resp)
  IN IF o.thrown THEN Outcome(ErrorResult(NetworkError), Null) ELSE o

\* api.ts:187-221, the body of the try block.
apiRequestWithPaginationTry(resp) ==
  IF resp.transport = "fail" THEN Throw
  ELSE IF resp.status = 429
    THEN Outcome(ErrorResult(TooManyRequests), Some(RetryAfterOf(resp.retryAfter)))
  ELSE LET responseData == DecodeBody(resp.body)
       IN IF responseData.kind = "null" THEN Throw
          ELSE IF ~ResponseOk(resp.status) \/ ~responseData.success
            THEN Outcome(ErrorResult(errorMessage(responseData, resp.status)), Null)
          ELSE Outcome(DataResult(Some(responseData)), Null)

\* api.ts:186-225
apiRequestWithPagination(resp) ==
  LET o == apiRequestWithPaginationTry(resp)
  IN IF o.thrown THEN Outcome(ErrorResult(NetworkError), Null) ELSE o

\* api.ts:670-682: the comments of the payload when it is an array, and the
\* backend's pagination or the default one.
DefaultCommentsPagination == [page |-> 1, limit |-> 50, total |-> 0, pages |-> 0]
CommentsData(responseData) ==
  [comments |-> IF IsSome(responseData.data) /\ Get(responseData.data).isArray
                  THEN Get(responseData.data).items
                  ELSE <<>>,
   pagination |-> IF IsSome(responseData.pagination)
                    THEN Get(responseData.pagination)
                    ELSE DefaultCommentsPagination]

\* Mutant: the direct fetch does not intercept the 429.
getCommentsTry_No429(resp) ==
  IF resp.transport = "fail" THEN Throw
  ELSE LET responseData == DecodeBody(resp.body)
       IN IF responseData.kind = "null" THEN Throw
          ELSE IF ~ResponseOk(resp.status) \/ ~responseData.success
            THEN Outcome(ErrorResult(errorMessage(responseData, resp.status)), Null)
          ELSE Outcome(DataResult(Some(CommentsData(responseData))), Null)

\* api.ts:639-682, the body of the try block of the direct fetch.
getCommentsTry(resp) ==
  IF resp.transport = "fail" THEN Throw
  ELSE IF resp.status = 429
    THEN Outcome(ErrorResult(TooManyRequests), Some(RetryAfterOf(resp.retryAfter)))
  ELSE LET responseData == DecodeBody(resp.body)
       IN IF responseData.kind = "null" THEN Throw
          ELSE IF ~ResponseOk(resp.status) \/ ~responseData.success
            THEN Outcome(ErrorResult(errorMessage(responseData, resp.status)), Null)
          ELSE Outcome(DataResult(Some(CommentsData(responseData))), Null)

\* api.ts:638-685
getCommentsDirect(resp) ==
  LET o == getCommentsTry(resp)
  IN IF o.thrown THEN Outcome(ErrorResult(NetworkError), Null) ELSE o

-----------------------------------------------------------------------------
(* Drafts.  A draft is a string of which the model keeps the shape that    *)
(* trim() and length see: `lead` white-space characters, then `body`       *)
(* characters that begin and end with a non-space, then `trail` white      *)
(* space.  A draft of white space only has body = 0 and trail = 0.         *)

Draft(lead, body, trail) == [lead |-> lead, body |-> body, trail |-> trail]
EmptyDraft == Draft(0, 0, 0)

\* String.prototype.trim()
Trim(d) == IF d.body = 0 THEN EmptyDraft ELSE Draft(0, d.body, 0)
\* String.prototype.length
Length(d) == d.lead + d.body + d.trail
\* !s is true of the empty string only
IsEmptyString(d) == Length(d) = 0

\* The limit of BlogComment.tsx:117 and :429.
MaxCommentLength == 500

\* The values an onChange event can carry: empty, blank, padded text of
\* exactly the limit, and two of one character more (the second trims to
\* less than the limit).
Drafts ==
  {EmptyDraft, Draft(2, 0, 0), Draft(1, MaxCommentLength - 2, 1),
   Draft(0, MaxCommentLength + 1, 0), Draft(1, MaxCommentLength - 1, 1)}

-----------------------------------------------------------------------------
(* The viewer and the comment.                                             *)

Users == {"u1", "u2"}
Anonymous == [isAuthenticated |-> FALSE, user |-> Null]
SignedIn(u) == [isAuthenticated |-> TRUE, user |-> Some(u)]
Viewers == {Anonymous} \cup {SignedIn(u) : u \in Users}

Statuses == {"active", "pending_review", "hidden", "deleted"}
ReportReasons == {"spam", "offensive", "harassment", "other"}

\* isAuthenticated && user && user.id === comment.author.id
\* (BlogComment.tsx:57)
isOwner(v, c) == v.isAuthenticated /\ IsSome(v.user) /\ Get(v.user) = c.author
\* comment.replies && comment.replies.length > 0   (BlogComment.tsx:58)
hasReplies(c) == c.replyCount > 0
\* Mutant: the reply affordance does not look at the comment's status.
canReply_IgnoresStatus(v, c) == c.canReply /\ v.isAuthenticated

\* comment.canReply && isAuthenticated && comment.status === 'active'
\* (BlogComment.tsx:59)
canReply(v, c) == c.canReply /\ v.isAuthenticated /\ c.status = "active"
\* if (comment.status === 'hidden' && !isOwner) return null
\* (BlogComment.tsx:134-136)
ReturnsNull(v, c) == c.status = "hidden" /\ ~isOwner(v, c)

\* The slug of the blog the thread belongs to (blog.slug, blogSlug).
BlogSlug == "b1"

-----------------------------------------------------------------------------
(* Toasts, requests and the record of the last step.                       *)

NoToast == [level |-> "none", text |-> ""]
ToastSuccess(text) == [level |-> "success", text |-> text]
ToastError(text) == [level |-> "error", text |-> text]

\* A mutation request handed to commentApi.
Sent(op, content, reason) == [op |-> op, content |-> content, reason |-> reason]

\* The local state a handler may touch, as it was before the step.
Snapshot ==
  [replyText |-> replyText, showReplyBox |-> showReplyBox, newComment |-> newComment]
NoSnapshot ==
  [replyText |-> EmptyDraft, showReplyBox |-> FALSE, newComment |-> EmptyDraft]

Event(kind, toast, sent, result, invalidated, before) ==
  [kind |-> kind, toast |-> toast, sent |-> sent, result |-> result,
   invalidated |-> invalidated, before |-> before]
\* A step that only changes local state: no toast, no request.
NoEvent == Event("none", NoToast, Null, NoResult, Null, NoSnapshot)

-----------------------------------------------------------------------------
(* commentApi: what each mutation function settles with for a response.    *)
(* The fields transformComment rewrites (author.avatar, replies) are not   *)
(* part of the payload kept here; its failure on a missing comment is.     *)

\* api.ts:711-724.  transformComment(response.data!) reads comment.author:
\* with no data in the envelope that is a TypeError and the promise rejects.
replyToComment(resp) ==
  LET response == apiRequest(resp).result
  IN IF Truthy(response.error) THEN ErrorResult(Get(response.error))
     ELSE IF response.data = Null THEN Rejected
     ELSE DataResult(response.data)

\* api.ts:692-705
createComment(resp) ==
  LET response == apiRequest(resp).result
  IN IF Truthy(response.error) THEN ErrorResult(Get(response.error))
     ELSE IF response.data = Null THEN Rejected
     ELSE DataResult(response.data)

\* api.ts:730-742
deleteComment(resp) ==
  LET response == apiRequest(resp).result
  IN IF Truthy(response.error) THEN ErrorResult(Get(response.error))
     ELSE DataResult(response.data)

\* api.ts:748-764
reportComment(resp) ==
  LET response == apiRequest(resp).result
  IN IF Truthy(response.error) THEN ErrorResult(Get(response.error))
     ELSE DataResult(response.data)

\* The backend's answers to a mutation that the thread is run against.
MutationResponses ==
  {TransportFailure,
   HttpResponse(429, Some(<<"3", "0">>), Envelope(FALSE, Str("X"), Absent, Null, Null)),
   HttpResponse(400, Null, Envelope(FALSE, Str("X"), Absent, Null, Null)),
   HttpResponse(500, Null, UndecodableBody),
   HttpResponse(200, Null, Envelope(TRUE, Str("OK"), Absent, Null, Null))}
    \cup {HttpResponse(200, Null,
            Envelope(TRUE, Str("OK"), Absent, Some(ObjectPayload), Null))}

\* reportComment's answers carry the comment's new status and report count.
ReportResponses ==
  MutationResponses
    \cup {HttpResponse(200, Null,
            Envelope(TRUE, Str("OK"), Absent, Some(Payload(FALSE, <<>>, st, n)), Null)) :
            st \in {"active", "hidden"}, n \in {1, 3}}

-----------------------------------------------------------------------------
(* CommentItem and BlogComment: handlers.                                  *)

Handled(toast, sent) == [toast |-> toast, sent |-> sent]

\* Mutant: the draft is sent as typed, without trim().
handleReply_Untrimmed(text) ==
  IF IsEmptyString(Trim(text))
    THEN Handled(ToastError("Please enter a reply"), Null)
  ELSE IF Length(text) > MaxCommentLength
    THEN Handled(ToastError("Reply cannot exceed 500 characters"), Null)
  ELSE Handled(NoToast, Some(Sent("replyToComment", text, "")))

\* BlogComment.tsx:112-122
handleReply(text) ==
  IF IsEmptyString(Trim(text))
    THEN Handled(ToastError("Please enter a reply"), Null)
  ELSE IF Length(text) > MaxCommentLength
    THEN Handled(ToastError("Reply cannot exceed 500 characters"), Null)
  ELSE Handled(NoToast, Some(Sent("replyToComment", Trim(text), "")))

\* Mutant: handleAddComment does not test isAuthenticated.
handleAddComment_NoLoginCheck(v, text) ==
  IF IsEmptyString(Trim(text))
    THEN Handled(ToastError("Please enter a comment"), Null)
  ELSE IF Length(text) > MaxCommentLength
    THEN Handled(ToastError("Comment cannot exceed 500 characters"), Null)
  ELSE Handled(NoToast, Some(Sent("createComment", Trim(text), "")))

\* BlogComment.tsx:420-434
handleAddComment(v, text) ==
  IF ~v.isAuthenticated
    THEN Handled(ToastError("Please login to comment"), Null)
  ELSE IF IsEmptyString(Trim(text))
    THEN Handled(ToastError("Please enter a comment"), Null)
  ELSE IF Length(text) > MaxCommentLength
    THEN Handled(ToastError("Comment cannot exceed 500 characters"), Null)
  ELSE Handled(NoToast, Some(Sent("createComment", Trim(text), "")))

\* disabled={!replyText.trim() || replyText.length > 500 ||
\* replyMutation.isPending} (BlogComment.tsx:292); the Ctrl/Cmd+Enter handler
\* tests the same three conditions (BlogComment.tsx:260).
PostReplyDisabled(text, pending) ==
  IsEmptyString(Trim(text)) \/ Length(text) > MaxCommentLength \/ pending

\* BlogComment.tsx:469 and :453
PostCommentDisabled(text, pending) ==
  IsEmptyString(Trim(text)) \/ Length(text) > MaxCommentLength \/ pending

\* Mutant: the message follows the returned status only.
ReportSuccessText_StatusOnly(data) ==
  IF IsSome(data.data) /\ Get(data.data).status = "hidden"
    THEN "Comment has been hidden due to multiple reports"
    ELSE "Comment reported successfully"

\* The toast of reportMutation.onSuccess (BlogComment.tsx:96-102); `data` is
\* what reportComment resolved with, data.data possibly undefined.
ReportSuccessText(data) ==
  IF IsSome(data.data) /\ Get(data.data).status = "hidden"
    THEN "Comment has been hidden due to multiple reports"
  ELSE IF IsSome(data.data) /\ Get(data.data).spam_report_count = 3
    THEN "Comment flagged for review"
  ELSE "Comment reported successfully"

\* onError: toast.error(error.error || fallback).  The rejection value is the
\* exception thrown inside the mutation function; it has no `error` field.
MutationErrorText(rejection, fallback) ==
  IF Truthy(rejection.error) THEN Get(rejection.error) ELSE fallback

-----------------------------------------------------------------------------
(* The parts of the state a specification does not use stay at these       *)
(* values.                                                                 *)

Mutations == {"reply", "delete", "report", "create"}
NoComment == [id |-> "none", author |-> "none", status |-> "active",
              canReply |-> FALSE, replyCount |-> 0]

ItemIdle ==
  /\ comment = NoComment
  /\ showReplyBox = FALSE
  /\ showReplies = TRUE
  /\ replyText = EmptyDraft
  /\ isReporting = FALSE
  /\ reportReason = "spam"
  /\ isDeleting = FALSE
  /\ newComment = EmptyDraft
  /\ isPending = [m \in Mutations |-> FALSE]
  /\ event = NoEvent

RenderIdle ==
  /\ tree = <<>>
  /\ expanded = <<>>

\* No asset URL has been resolved.
NoAsset == [pc |-> "idle", assetUrl |-> Null, once |-> <<>>, twice |-> <<>>]

AssetIdle ==
  /\ API_BASE_URL = Null
  /\ asset = NoAsset

\* No page other than the one a specification is about is mounted.
PageIdle ==
  /\ transformed = <<>>
  /\ feed = <<>>
  /\ form = <<>>
  /\ detail = <<>>
  /\ tagInput = <<>>
  /\ clock = <<>>
  /\ settled = <<>>

-----------------------------------------------------------------------------
(* SpecApi: one adapter call at a time.                                    *)

\* The request functions and a caller of each: `fn` is the path the request
\* takes, `isFormDataBody` whether the caller passes a FormData body
\* (updateMyProfile, api.ts:319-330).
CallSites ==
  {[name |-> "register", fn |-> "apiRequest", isFormDataBody |-> FALSE],
   [name |-> "updateMyProfile", fn |-> "apiRequest", isFormDataBody |-> TRUE],
   [name |-> "getBlogs", fn |-> "apiRequestWithPagination", isFormDataBody |-> FALSE],
   [name |-> "getComments", fn |-> "getComments", isFormDataBody |-> FALSE]}

NoSite == [name |-> "none", fn |-> "none", isFormDataBody |-> FALSE]

\* `latest`: the handler most recently passed to setRateLimitHandler when the
\* call's last response was handled (Null: none had been).
IdleCall ==
  [site |-> NoSite, pc |-> "idle", resp |-> NoResponse, result |-> NoResult,
   latest |-> Null]

LatestRegistration ==
  IF registrations = <<>> THEN Null ELSE Some(registrations[Len(registrations)])

\* One request as fetch() received it; `stored` is what localStorage held
\* under 'auth_token' at that moment.
Request(fn, headers, stored) == [fn |-> fn, headers |-> headers, stored |-> stored]

\* if (rateLimitHandler) rateLimitHandler(retryAfter)   (api.ts:140-142)
Notified(log, notify) ==
  IF IsSome(notify) /\ IsSome(rateLimitHandler)
    THEN Append(log, [handler |-> Get(rateLimitHandler), retryAfter |-> Get(notify)])
    ELSE log

ApiIdle ==
  /\ authToken = Null
  /\ rateLimitHandler = Null
  /\ registrations = <<>>
  /\ handlerLog = <<>>
  /\ call = IdleCall
  /\ requests = <<>>

InitApi ==
  /\ authToken \in StoredTokens
  /\ rateLimitHandler = Null
  /\ registrations = <<>>
  /\ handlerLog = <<>>
  /\ call = IdleCall
  /\ requests = <<>>
  /\ viewer = Anonymous
  /\ ItemIdle
  /\ RenderIdle
  /\ AssetIdle
  /\ PageIdle

\* Mutant: a handler already registered is kept (first registration wins).
setRateLimitHandler_FirstWins(h) ==
  /\ \A k \in 1..Len(registrations) : registrations[k] # h
  /\ rateLimitHandler' = IF IsSome(rateLimitHandler) THEN rateLimitHandler ELSE Some(h)
  /\ registrations' = Append(registrations, h)
  /\ UNCHANGED <<authToken, handlerLog, call, requests, viewer, itemVars, renderVars, assetVars, pageVars>>

\* api.ts:23-25.  Every handler is registered at most once.
setRateLimitHandler(h) ==
  /\ \A k \in 1..Len(registrations) : registrations[k] # h
  /\ rateLimitHandler' = Some(h)
  /\ registrations' = Append(registrations, h)
  /\ UNCHANGED <<authToken, handlerLog, call, requests, viewer, itemVars, renderVars, assetVars, pageVars>>

\* localStorage.setItem('auth_token', t) / removeItem('auth_token') by the
\* auth session holder.
SetStoredToken(t) ==
  /\ authToken # t
  /\ authToken' = t
  /\ UNCHANGED <<rateLimitHandler, registrations, handlerLog, call, requests,
                 viewer, itemVars, renderVars, assetVars, pageVars>>

\* A caller invokes a request function: the token is read and the request is
\* handed to fetch() in the same turn (api.ts:114-133, 175-190, 620-623).
IssueRequest(site) ==
  /\ call.pc \in {"idle", "done"}
  /\ call' = [IdleCall EXCEPT !.site = site, !.pc = "fetch"]
  /\ requests' =
       <<Request(IF site.fn = "apiRequestWithPagination" THEN site.fn ELSE "apiRequest",
                 IF site.fn = "apiRequestWithPagination"
                   THEN apiRequestWithPaginationHeaders(NoHeaders, authToken)
                   ELSE apiRequestHeaders(NoHeaders, site.isFormDataBody, authToken),
                 authToken)>>
  /\ handlerLog' = <<>>
  /\ UNCHANGED <<authToken, rateLimitHandler, registrations, viewer, itemVars,
                 renderVars, assetVars, pageVars>>

\* The fetch of apiRequest / apiRequestWithPagination settles.  getComments
\* returns the error of its typed request, and otherwise reads the token
\* again and issues its direct fetch (api.ts:625-642).
FetchSettles(resp) ==
  /\ call.pc = "fetch"
  /\ LET o == IF call.site.fn = "apiRequestWithPagination"
                THEN apiRequestWithPagination(resp)
                ELSE apiRequest(resp)
         again == call.site.fn = "getComments" /\ ~Truthy(o.result.error)
     IN /\ handlerLog' = Notified(handlerLog, o.notify)
        /\ IF again
             THEN /\ call' = [call EXCEPT !.pc = "direct", !.resp = resp,
                                          !.latest = LatestRegistration]
                  /\ requests' = Append(requests,
                       Request("getComments", getCommentsHeaders(authToken), authToken))
             ELSE /\ call' = [call EXCEPT !.pc = "done", !.resp = resp,
                                          !.result = o.result,
                                          !.latest = LatestRegistration]
                  /\ UNCHANGED requests
  /\ UNCHANGED <<authToken, rateLimitHandler, registrations, viewer, itemVars,
                 renderVars, assetVars, pageVars>>

\* The direct fetch of getComments settles (api.ts:638-685).
DirectFetchSettles(resp) ==
  /\ call.pc = "direct"
  /\ LET o == getCommentsDirect(resp)
     IN /\ handlerLog' = Notified(handlerLog, o.notify)
        /\ call' = [call EXCEPT !.pc = "done", !.resp = resp, !.result = o.result,
                                !.latest = LatestRegistration]
  /\ UNCHANGED <<authToken, rateLimitHandler, registrations, requests, viewer,
                 itemVars, renderVars, assetVars, pageVars>>

NextApi ==
  \/ \E h \in Handlers : setRateLimitHandler(h)
  \/ \E t \in StoredTokens : SetStoredToken(t)
  \/ \E site \in CallSites : IssueRequest(site)
  \/ \E resp \in Responses : FetchSettles(resp)
  \/ \E resp \in Responses : DirectFetchSettles(resp)

SpecApi == InitApi /\ [][NextApi]_vars

-----------------------------------------------------------------------------
(* Spec: one CommentItem and the composer of its thread.                   *)

\* The comment the item is given: written by u1, in any status.
Comments ==
  {[id |-> "c1", author |-> "u1", status |-> st, canReply |-> cr, replyCount |-> n] :
     st \in Statuses, cr \in BOOLEAN, n \in {0, 1}}

\* The item renders something (it did not return null).
Rendered == ~ReturnsNull(viewer, comment)
\* {showReplyBox && canReply && ...}   (BlogComment.tsx:251)
ReplyBoxShown == Rendered /\ showReplyBox /\ canReply(viewer, comment)

Init ==
  /\ ApiIdle
  /\ RenderIdle
  /\ AssetIdle
  /\ PageIdle
  /\ viewer \in Viewers
  /\ comment \in Comments
  /\ showReplyBox = FALSE
  /\ showReplies = TRUE
  /\ replyText = EmptyDraft
  /\ isReporting = FALSE
  /\ reportReason = "spam"
  /\ isDeleting = FALSE
  /\ newComment = EmptyDraft
  /\ isPending = [m \in Mutations |-> FALSE]
  /\ event = NoEvent

Frame == UNCHANGED <<authToken, rateLimitHandler, registrations, call, requests,
                     viewer, comment, renderVars, assetVars, pageVars>>

\* {canReply && (<Button ...>Reply</Button>)}   (BlogComment.tsx:182-183)
ReplyButtonShown == Rendered /\ canReply(viewer, comment)

\* The Reply button (BlogComment.tsx:183-200).
ClickReply ==
  /\ Rendered /\ canReply(viewer, comment) /\ ~isPending["reply"]
  /\ IF ~viewer.isAuthenticated
       THEN /\ event' = Event("clickReply", ToastError("Please login to reply"),
                              Null, NoResult, Null, Snapshot)
            /\ UNCHANGED showReplyBox
       ELSE /\ showReplyBox' = ~showReplyBox
            /\ event' = NoEvent
  /\ UNCHANGED <<showReplies, replyText, isReporting, reportReason, isDeleting,
                 newComment, isPending, handlerLog>>
  /\ Frame

\* onChange of the reply textarea (BlogComment.tsx:256).
ChangeReplyText(text) ==
  /\ ReplyBoxShown
  /\ text # replyText
  /\ replyText' = text
  /\ event' = NoEvent
  /\ UNCHANGED <<showReplyBox, showReplies, isReporting, reportReason, isDeleting,
                 newComment, isPending, handlerLog>>
  /\ Frame

\* Cancel, or Escape in the textarea (BlogComment.tsx:264-267, 282-285).
CancelReply ==
  /\ ReplyBoxShown
  /\ showReplyBox' = FALSE
  /\ replyText' = EmptyDraft
  /\ event' = NoEvent
  /\ UNCHANGED <<showReplies, isReporting, reportReason, isDeleting, newComment,
                 isPending, handlerLog>>
  /\ Frame

\* Post Reply, or Ctrl/Cmd+Enter in the textarea: nothing runs while the
\* button is disabled, handleReply otherwise (BlogComment.tsx:257-263,
\* 289-295, 112-122).
SubmitReply ==
  /\ ReplyBoxShown
  /\ IF PostReplyDisabled(replyText, isPending["reply"])
       THEN /\ event' = Event("replyBlocked", NoToast, Null, NoResult, Null, Snapshot)
            /\ UNCHANGED isPending
       ELSE LET h == handleReply(replyText)
            IN /\ event' = Event("handleReply", h.toast, h.sent, NoResult, Null, Snapshot)
               /\ isPending' = [isPending EXCEPT !["reply"] = IsSome(h.sent)]
  /\ UNCHANGED <<showReplyBox, showReplies, replyText, isReporting, reportReason,
                 isDeleting, newComment, handlerLog>>
  /\ Frame

\* replyMutation settles: useMutation runs onSuccess when the promise of
\* mutationFn resolved, onError when it rejected (BlogComment.tsx:62-75).
ReplySettles(resp) ==
  /\ isPending["reply"]
  /\ isPending' = [isPending EXCEPT !["reply"] = FALSE]
  /\ handlerLog' = Notified(handlerLog, apiRequest(resp).notify)
  /\ LET r == replyToComment(resp)
     IN IF r.kind = "resolved"
          THEN /\ event' = Event("replySettled", ToastSuccess("Reply posted successfully!"),
                                 Null, r, Some(BlogSlug), Snapshot)
               /\ replyText' = EmptyDraft
               /\ showReplyBox' = FALSE
               /\ showReplies' = TRUE
          ELSE /\ event' = Event("replySettled",
                                 ToastError(MutationErrorText(r,
                                   "Failed to post reply. Please try again.")),
                                 Null, r, Null, Snapshot)
               /\ UNCHANGED <<replyText, showReplyBox, showReplies>>
  /\ UNCHANGED <<isReporting, reportReason, isDeleting, newComment>>
  /\ Frame

\* Show / Hide replies (BlogComment.tsx:202-221).
ToggleReplies ==
  /\ Rendered /\ hasReplies(comment)
  /\ showReplies' = ~showReplies
  /\ event' = NoEvent
  /\ UNCHANGED <<showReplyBox, replyText, isReporting, reportReason, isDeleting,
                 newComment, isPending, handlerLog>>
  /\ Frame

\* The Report button (BlogComment.tsx:223-234).
ClickReport ==
  /\ Rendered
  /\ viewer.isAuthenticated /\ ~isOwner(viewer, comment) /\ comment.status = "active"
  /\ ~isPending["report"]
  /\ isReporting' = TRUE
  /\ event' = NoEvent
  /\ UNCHANGED <<showReplyBox, showReplies, replyText, reportReason, isDeleting,
                 newComment, isPending, handlerLog>>
  /\ Frame

\* The <select> of the report dialog (BlogComment.tsx:353-362).
SelectReportReason(reason) ==
  /\ Rendered /\ isReporting
  /\ reason # reportReason
  /\ reportReason' = reason
  /\ event' = NoEvent
  /\ UNCHANGED <<showReplyBox, showReplies, replyText, isReporting, isDeleting,
                 newComment, isPending, handlerLog>>
  /\ Frame

\* Cancel, or closing the dialog (BlogComment.tsx:342, 366).
CancelReport ==
  /\ Rendered /\ isReporting
  /\ isReporting' = FALSE
  /\ event' = NoEvent
  /\ UNCHANGED <<showReplyBox, showReplies, replyText, reportReason, isDeleting,
                 newComment, isPending, handlerLog>>
  /\ Frame

\* The dialog's Report button: handleReport (BlogComment.tsx:128-130, 369).
ConfirmReport ==
  /\ Rendered /\ isReporting /\ ~isPending["report"]
  /\ isPending' = [isPending EXCEPT !["report"] = TRUE]
  /\ event' = Event("handleReport", NoToast,
                    Some(Sent("reportComment", EmptyDraft, reportReason)),
                    NoResult, Null, Snapshot)
  /\ UNCHANGED <<showReplyBox, showReplies, replyText, isReporting, reportReason,
                 isDeleting, newComment, handlerLog>>
  /\ Frame

\* reportMutation settles (BlogComment.tsx:92-110).
ReportSettles(resp) ==
  /\ isPending["report"]
  /\ isPending' = [isPending EXCEPT !["report"] = FALSE]
  /\ handlerLog' = Notified(handlerLog, apiRequest(resp).notify)
  /\ isReporting' = FALSE
  /\ LET r == reportComment(resp)
     IN IF r.kind = "resolved"
          THEN event' = Event("reportSettled", ToastSuccess(ReportSuccessText(r)),
                              Null, r, Some(BlogSlug), Snapshot)
          ELSE event' = Event("reportSettled",
                              ToastError(MutationErrorText(r,
                                "Failed to report comment. Please try again.")),
                              Null, r, Null, Snapshot)
  /\ UNCHANGED <<showReplyBox, showReplies, replyText, reportReason, isDeleting,
                 newComment>>
  /\ Frame

\* Mutant: the Delete button deletes at once, without the dialog.
ClickDelete_NoConfirm ==
  /\ Rendered /\ isOwner(viewer, comment) /\ ~isPending["delete"]
  /\ isPending' = [isPending EXCEPT !["delete"] = TRUE]
  /\ event' = Event("handleDelete", NoToast,
                    Some(Sent("deleteComment", EmptyDraft, "")),
                    NoResult, Null, Snapshot)
  /\ UNCHANGED <<showReplyBox, showReplies, replyText, isReporting, reportReason,
                 isDeleting, newComment, handlerLog>>
  /\ Frame

\* The Delete button (BlogComment.tsx:236-247).
ClickDelete ==
  /\ Rendered /\ isOwner(viewer, comment) /\ ~isPending["delete"]
  /\ isDeleting' = TRUE
  /\ event' = NoEvent
  /\ UNCHANGED <<showReplyBox, showReplies, replyText, isReporting, reportReason,
                 newComment, isPending, handlerLog>>
  /\ Frame

\* Cancel, or closing the dialog (BlogComment.tsx:322, 331).
CancelDelete ==
  /\ Rendered /\ isDeleting
  /\ isDeleting' = FALSE
  /\ event' = NoEvent
  /\ UNCHANGED <<showReplyBox, showReplies, replyText, isReporting, reportReason,
                 newComment, isPending, handlerLog>>
  /\ Frame

\* Mutant: the query is invalidated when the request is sent.
ConfirmDelete_InvalidatesFirst ==
  /\ Rendered /\ isDeleting /\ ~isPending["delete"]
  /\ isPending' = [isPending EXCEPT !["delete"] = TRUE]
  /\ event' = Event("handleDelete", NoToast,
                    Some(Sent("deleteComment", EmptyDraft, "")),
                    NoResult, Some(BlogSlug), Snapshot)
  /\ UNCHANGED <<showReplyBox, showReplies, replyText, isReporting, reportReason,
                 isDeleting, newComment, handlerLog>>
  /\ Frame

\* The dialog's Delete button: handleDelete (BlogComment.tsx:124-126, 334).
ConfirmDelete ==
  /\ Rendered /\ isDeleting /\ ~isPending["delete"]
  /\ isPending' = [isPending EXCEPT !["delete"] = TRUE]
  /\ event' = Event("handleDelete", NoToast,
                    Some(Sent("deleteComment", EmptyDraft, "")),
                    NoResult, Null, Snapshot)
  /\ UNCHANGED <<showReplyBox, showReplies, replyText, isReporting, reportReason,
                 isDeleting, newComment, handlerLog>>
  /\ Frame

\* Mutant: a successful delete marks the comment deleted in the client's tree.
DeleteSettles_Optimistic(resp) ==
  /\ isPending["delete"]
  /\ isPending' = [isPending EXCEPT !["delete"] = FALSE]
  /\ handlerLog' = Notified(handlerLog, apiRequest(resp).notify)
  /\ isDeleting' = FALSE
  /\ LET r == deleteComment(resp)
     IN IF r.kind = "resolved"
          THEN /\ event' = Event("deleteSettled",
                                 ToastSuccess("Comment deleted successfully"),
                                 Null, r, Some(BlogSlug), Snapshot)
               /\ comment' = [comment EXCEPT !.status = "deleted"]
          ELSE /\ event' = Event("deleteSettled",
                                 ToastError(MutationErrorText(r,
                                   "Failed to delete comment. Please try again.")),
                                 Null, r, Null, Snapshot)
               /\ UNCHANGED comment
  /\ UNCHANGED <<showReplyBox, showReplies, replyText, isReporting, reportReason,
                 newComment>>
  /\ UNCHANGED <<authToken, rateLimitHandler, registrations, call, requests,
                 viewer, renderVars, assetVars, pageVars>>

\* deleteMutation settles (BlogComment.tsx:78-89).
DeleteSettles(resp) ==
  /\ isPending["delete"]
  /\ isPending' = [isPending EXCEPT !["delete"] = FALSE]
  /\ handlerLog' = Notified(handlerLog, apiRequest(resp).notify)
  /\ isDeleting' = FALSE
  /\ LET r == deleteComment(resp)
     IN IF r.kind = "resolved"
          THEN event' = Event("deleteSettled", ToastSuccess("Comment deleted successfully"),
                              Null, r, Some(BlogSlug), Snapshot)
          ELSE event' = Event("deleteSettled",
                              ToastError(MutationErrorText(r,
                                "Failed to delete comment. Please try again.")),
                              Null, r, Null, Snapshot)
  /\ UNCHANGED <<showReplyBox, showReplies, replyText, isReporting, reportReason,
                 newComment>>
  /\ Frame

\* {isAuthenticated ? (the textarea and Post Comment) : (Please login to
\* comment)}   (BlogComment.tsx:444-488)
Composer == IF viewer.isAuthenticated THEN "textarea" ELSE "login"

\* onChange of the composer's textarea, rendered for an authenticated viewer
\* (BlogComment.tsx:444-449).
ChangeNewComment(text) ==
  /\ viewer.isAuthenticated
  /\ text # newComment
  /\ newComment' = text
  /\ event' = NoEvent
  /\ UNCHANGED <<showReplyBox, showReplies, replyText, isReporting, reportReason,
                 isDeleting, isPending, handlerLog>>
  /\ Frame

\* Post Comment, or Ctrl/Cmd+Enter: nothing runs while the button is
\* disabled, handleAddComment otherwise (BlogComment.tsx:450-457, 466-472,
\* 420-434).
SubmitComment ==
  /\ viewer.isAuthenticated
  /\ IF PostCommentDisabled(newComment, isPending["create"])
       THEN /\ event' = Event("commentBlocked", NoToast, Null, NoResult, Null, Snapshot)
            /\ UNCHANGED isPending
       ELSE LET h == handleAddComment(viewer, newComment)
            IN /\ event' = Event("handleAddComment", h.toast, h.sent, NoResult, Null,
                                 Snapshot)
               /\ isPending' = [isPending EXCEPT !["create"] = IsSome(h.sent)]
  /\ UNCHANGED <<showReplyBox, showReplies, replyText, isReporting, reportReason,
                 isDeleting, newComment, handlerLog>>
  /\ Frame

\* createMutation settles (BlogComment.tsx:408-418).
CreateSettles(resp) ==
  /\ isPending["create"]
  /\ isPending' = [isPending EXCEPT !["create"] = FALSE]
  /\ handlerLog' = Notified(handlerLog, apiRequest(resp).notify)
  /\ LET r == createComment(resp)
     IN IF r.kind = "resolved"
          THEN /\ event' = Event("createSettled", ToastSuccess("Comment posted successfully!"),
                                 Null, r, Some(BlogSlug), Snapshot)
               /\ newComment' = EmptyDraft
          ELSE /\ event' = Event("createSettled",
                                 ToastError(MutationErrorText(r,
                                   "Failed to post comment. Please try again.")),
                                 Null, r, Null, Snapshot)
               /\ UNCHANGED newComment
  /\ UNCHANGED <<showReplyBox, showReplies, replyText, isReporting, reportReason,
                 isDeleting>>
  /\ Frame

\* A response to the comments query arrives and the list is rendered again
\* with the fetched comment; the item keeps its key (comment.id), so its
\* local state survives (BlogComment.tsx:391-405, 436, 545-555).
Refetch(c) ==
  /\ c # comment
  /\ c.id = comment.id /\ c.author = comment.author
  /\ comment' = c
  /\ event' = Event("refetched", NoToast, Null, NoResult, Null, NoSnapshot)
  /\ UNCHANGED <<showReplyBox, showReplies, replyText, isReporting, reportReason,
                 isDeleting, newComment, isPending, handlerLog>>
  /\ UNCHANGED <<authToken, rateLimitHandler, registrations, call, requests,
                 viewer, renderVars, assetVars, pageVars>>

\* A dialog of the item is open on screen; it is modal, the rest of the page
\* does not take input while it is open (BlogComment.tsx:321-322, 341-342).
DialogOpen == Rendered /\ (isDeleting \/ isReporting)

\* The viewer logs out from the page header: useAuth() then yields no user
\* and the thread is rendered again with its state kept.
Logout ==
  /\ viewer.isAuthenticated
  /\ ~DialogOpen
  /\ viewer' = Anonymous
  /\ event' = NoEvent
  /\ UNCHANGED <<showReplyBox, showReplies, replyText, isReporting, reportReason,
                 isDeleting, newComment, isPending, handlerLog>>
  /\ UNCHANGED <<authToken, rateLimitHandler, registrations, call, requests,
                 comment, renderVars, assetVars, pageVars>>

Next ==
  \/ ClickReply
  \/ \E text \in Drafts : ChangeReplyText(text)
  \/ CancelReply
  \/ SubmitReply
  \/ \E resp \in MutationResponses : ReplySettles(resp)
  \/ ToggleReplies
  \/ ClickReport
  \/ \E reason \in ReportReasons : SelectReportReason(reason)
  \/ CancelReport
  \/ ConfirmReport
  \/ \E resp \in ReportResponses : ReportSettles(resp)
  \/ ClickDelete
  \/ CancelDelete
  \/ ConfirmDelete
  \/ \E resp \in MutationResponses : DeleteSettles(resp)
  \/ \E text \in Drafts : ChangeNewComment(text)
  \/ SubmitComment
  \/ \E resp \in MutationResponses : CreateSettles(resp)

Spec == Init /\ [][Next]_vars

-----------------------------------------------------------------------------
(* SpecThread: the same item and composer while the comment is fetched     *)
(* again and the viewer logs out, run on one valid draft and on a failing  *)
(* and a succeeding backend.                                               *)

ThreadComments == {c \in Comments : c.replyCount = 1}
ThreadDrafts == {EmptyDraft, Draft(1, 1, 0)}
ThreadResponses ==
  {HttpResponse(400, Null, Envelope(FALSE, Str("X"), Absent, Null, Null)),
   HttpResponse(200, Null, Envelope(TRUE, Str("OK"), Absent, Some(ObjectPayload), Null))}

InitThread == Init /\ comment \in ThreadComments

NextThread ==
  \/ ClickReply
  \/ \E text \in ThreadDrafts : ChangeReplyText(text)
  \/ CancelReply
  \/ SubmitReply
  \/ \E resp \in ThreadResponses : ReplySettles(resp)
  \/ ToggleReplies
  \/ ClickReport
  \/ \E reason \in ReportReasons : SelectReportReason(reason)
  \/ CancelReport
  \/ ConfirmReport
  \/ \E resp \in ThreadResponses : ReportSettles(resp)
  \/ ClickDelete
  \/ CancelDelete
  \/ ConfirmDelete
  \/ \E resp \in ThreadResponses : DeleteSettles(resp)
  \/ \E text \in ThreadDrafts : ChangeNewComment(text)
  \/ SubmitComment
  \/ \E resp \in ThreadResponses : CreateSettles(resp)
  \/ \E c \in ThreadComments : Refetch(c)
  \/ Logout

SpecThread == InitThread /\ [][NextThread]_vars

-----------------------------------------------------------------------------
(* SpecRender: the recursive render of a comment tree.                     *)
(* The tree is a function from comment ids 1..n to nodes; parent = 0 marks *)
(* a root comment, and the replies of a comment are its children in id     *)
(* order.                                                                  *)

\* Number of comments of the fetched tree.
NumComments == 2

DeletedPlaceholder == "[Comment deleted by user]"
HiddenPlaceholder == "[Comment hidden by moderator]"

Nodes ==
  [parent : 0..(NumComments - 1), author : Users, status : Statuses,
   content : {"original content"}]
Trees == {t \in [1..NumComments -> Nodes] : \A i \in 1..NumComments : t[i].parent < i}

\* comment.replies
Replies(t, i) == {k \in DOMAIN t : t[k].parent = i}
Roots(t) == {k \in DOMAIN t : t[k].parent = 0}

RECURSIVE Ancestors(_, _)
Ancestors(t, i) ==
  IF t[i].parent = 0 THEN {} ELSE {t[i].parent} \cup Ancestors(t, t[i].parent)
Descendants(t, i) == {k \in DOMAIN t : i \in Ancestors(t, k)}

\* Mutant: only a deleted comment gets a placeholder.
DisplayedText_HiddenRaw(c) ==
  IF c.status = "deleted" THEN DeletedPlaceholder ELSE c.content

\* The text of the <p> of a rendered comment (BlogComment.tsx:170-180).
DisplayedText(c) ==
  IF c.status = "deleted" THEN DeletedPlaceholder
  ELSE IF c.status = "hidden" THEN HiddenPlaceholder
  ELSE c.content

RECURSIVE CommentItem(_, _, _, _)

\* Mutant: the omission is per node, the replies of an omitted comment are
\* still rendered.
CommentItem_PerNode(t, v, ex, i) ==
  (IF t[i].status = "hidden" /\ ~isOwner(v, t[i])
     THEN {}
     ELSE {[id |-> i, text |-> DisplayedText(t[i])]})
    \cup (IF ex[i] /\ Replies(t, i) # {}
            THEN UNION {CommentItem(t, v, ex, k) : k \in Replies(t, i)}
            ELSE {})

\* Mutant: a hidden comment is omitted for its owner too.
CommentItem_HiddenForAll(t, v, ex, i) ==
  IF t[i].status = "hidden"
    THEN {}
    ELSE {[id |-> i, text |-> DisplayedText(t[i])]}
           \cup (IF ex[i] /\ Replies(t, i) # {}
                   THEN UNION {CommentItem(t, v, ex, k) : k \in Replies(t, i)}
                   ELSE {})

\* <CommentItem comment={t[i]} />: nothing when the comment is hidden and the
\* viewer is not its owner; otherwise the comment itself and, when showReplies
\* and hasReplies, a CommentItem for every reply (BlogComment.tsx:132-136,
\* 305-318).  The result is the set of comments on screen with their text.
CommentItem(t, v, ex, i) ==
  IF t[i].status = "hidden" /\ ~isOwner(v, t[i])
    THEN {}
    ELSE {[id |-> i, text |-> DisplayedText(t[i])]}
           \cup (IF ex[i] /\ Replies(t, i) # {}
                   THEN UNION {CommentItem(t, v, ex, k) : k \in Replies(t, i)}
                   ELSE {})

\* comments.map((comment) => <CommentItem ... />)   (BlogComment.tsx:545-555)
RenderTree(t, v, ex) == UNION {CommentItem(t, v, ex, i) : i \in Roots(t)}

\* What is on screen in the current state.
Screen == RenderTree(tree, viewer, expanded)
OnScreen(i) == \E r \in Screen : r.id = i

InitRender ==
  /\ ApiIdle
  /\ ItemIdle
  /\ AssetIdle
  /\ PageIdle
  /\ viewer \in Viewers
  /\ tree \in Trees
  /\ expanded = [i \in 1..NumComments |-> TRUE]

\* Show / Hide replies of a comment on screen (BlogComment.tsx:202-221).
\* Hiding the replies unmounts their CommentItems: when shown again they are
\* mounted anew, with showReplies at its initial value.
ToggleRepliesOf(i) ==
  /\ OnScreen(i)
  /\ Replies(tree, i) # {}
  /\ expanded' = [k \in DOMAIN expanded |->
                    IF k = i THEN ~expanded[i]
                    ELSE IF expanded[i] /\ k \in Descendants(tree, i) THEN TRUE
                    ELSE expanded[k]]
  /\ UNCHANGED <<apiVars, viewer, itemVars, tree, assetVars, pageVars>>

NextRender == \E i \in 1..NumComments : ToggleRepliesOf(i)

SpecRender == InitRender /\ [][NextRender]_vars

-----------------------------------------------------------------------------
(* SpecAsset: resolveAssetUrl (api.ts:1-13).                               *)
(* A string is the sequence of its tokens: a scheme with its colon, the    *)
(* double slash, a host, a slash, a path segment.  new URL(url, base) is   *)
(* modelled by what it does to them: an absolute url is parsed on its own, *)
(* any other is resolved against the parsed base; the scheme and the host  *)
(* of an http(s) URL are lower-cased, dot segments are removed and an      *)
(* empty path becomes "/"; a base that is not absolute makes it throw.     *)

SchemeTokens == {"http:", "https:", "HTTP:", "data:"}
SpecialSchemes == {"http:", "https:"}

\* ASCII lower case of a scheme or a host.
Lower(tok) ==
  CASE tok = "HTTP:" -> "http:"
    [] tok = "CDN.test" -> "cdn.test"
    [] OTHER -> tok

\* s.startsWith('http://') || s.startsWith('https://')   (api.ts:5)
StartsWithHttp(s) == Len(s) >= 2 /\ s[1] \in {"http:", "https:"} /\ s[2] = "//"

\* !assetUrl, !API_BASE_URL: undefined and '' are falsy.
Falsy(text) == text = Null \/ Get(text) = <<>>

\* The segments of a path, from its tokens; a trailing slash ends the path
\* with an empty segment.
RECURSIVE PathSegments(_)
PathSegments(toks) ==
  IF toks = <<>> THEN <<>>
  ELSE IF Head(toks) = "/"
    THEN IF Len(toks) = 1 THEN <<"">>
         ELSE IF toks[2] = "/" THEN <<"">> \o PathSegments(Tail(toks))
         ELSE <<toks[2]>> \o PathSegments(SubSeq(toks, 3, Len(toks)))
  ELSE <<Head(toks)>> \o PathSegments(Tail(toks))

\* Removal of the ".." segments of a path (no "." segment is modelled).
RECURSIVE RemoveDotSegments(_, _)
RemoveDotSegments(segs, out) ==
  IF segs = <<>> THEN out
  ELSE IF Head(segs) = ".."
    THEN LET popped == IF out = <<>> THEN out ELSE SubSeq(out, 1, Len(out) - 1)
         IN IF Tail(segs) = <<>> THEN popped \o <<"">>
            ELSE RemoveDotSegments(Tail(segs), popped)
  ELSE RemoveDotSegments(Tail(segs), Append(out, Head(segs)))

\* The tokens of a path, from its segments: "/" before every segment.
RECURSIVE PathTokens(_)
PathTokens(segs) ==
  IF segs = <<>> THEN <<>>
  ELSE (IF Head(segs) = "" THEN <<"/">> ELSE <<"/", Head(segs)>>)
         \o PathTokens(Tail(segs))

ParseFailure == [ok |-> FALSE, scheme |-> "", host |-> "", path |-> <<>>, opaque |-> <<>>]
ParsedUrl(scheme, host, path) ==
  [ok |-> TRUE, scheme |-> scheme, host |-> host,
   path |-> IF path = <<>> THEN <<"">> ELSE path, opaque |-> <<>>]
OpaqueUrl(scheme, rest) ==
  [ok |-> TRUE, scheme |-> scheme, host |-> "", path |-> <<>>, opaque |-> rest]

\* The URL parser on a string that starts with a scheme.
ParseAbsolute(s) ==
  IF Lower(s[1]) \in SpecialSchemes
    THEN IF Len(s) >= 3 /\ s[2] = "//"
           THEN ParsedUrl(Lower(s[1]), Lower(s[3]),
                          RemoveDotSegments(PathSegments(SubSeq(s, 4, Len(s))), <<>>))
           ELSE ParseFailure
    ELSE OpaqueUrl(s[1], Tail(s))

\* new URL(url, base): the parsed URL, or a failure where it throws.  The
\* base is parsed first, whatever the url.
URL(url, base) ==
  LET b == IF base # <<>> /\ base[1] \in SchemeTokens
             THEN ParseAbsolute(base) ELSE ParseFailure
  IN IF ~b.ok THEN ParseFailure
     ELSE IF url # <<>> /\ url[1] \in SchemeTokens THEN ParseAbsolute(url)
     ELSE IF b.opaque # <<>> THEN ParseFailure
          ELSE IF url # <<>> /\ url[1] = "//"
            THEN IF Len(url) >= 2
                   THEN ParsedUrl(b.scheme, Lower(url[2]),
                          RemoveDotSegments(PathSegments(SubSeq(url, 3, Len(url))), <<>>))
                   ELSE ParseFailure
          ELSE IF url # <<>> /\ url[1] = "/"
            THEN ParsedUrl(b.scheme, b.host, RemoveDotSegments(PathSegments(url), <<>>))
          ELSE ParsedUrl(b.scheme, b.host,
                 RemoveDotSegments(SubSeq(b.path, 1, Len(b.path) - 1)
                                     \o PathSegments(url), <<>>))

\* url.toString()
Href(u) ==
  IF u.opaque # <<>> THEN <<u.scheme>> \o u.opaque
  ELSE <<u.scheme, "//", u.host>> \o PathTokens(u.path)

\* Mutant: an http(s) asset URL is parsed and serialised like any other.
resolveAssetUrl_NoPassThrough(assetUrl, base) ==
  IF Falsy(assetUrl) THEN <<>>
  ELSE IF Falsy(base) THEN Get(assetUrl)
  ELSE LET u == URL(Get(assetUrl), Get(base))
       IN IF u.ok THEN Href(u) ELSE Get(assetUrl)

\* api.ts:3-13, with API_BASE_URL passed as `base`.
resolveAssetUrl(assetUrl, base) ==
  IF Falsy(assetUrl) THEN <<>>
  ELSE IF StartsWithHttp(Get(assetUrl)) THEN Get(assetUrl)
  ELSE IF Falsy(base) THEN Get(assetUrl)
  ELSE LET u == URL(Get(assetUrl), Get(base))
       IN IF u.ok THEN Href(u) ELSE Get(assetUrl)

\* The avatar and cover values a backend sends (api.ts:100, 607).
AssetUrls ==
  {Null, Some(<<>>),
   Some(<<"http:", "//", "cdn.test", "/", "a.png">>),
   Some(<<"https:", "//", "cdn.test">>),
   Some(<<"https:", "//", "CDN.test", "/", "img", "/", "..", "/", "a.png">>),
   Some(<<"HTTP:", "//", "CDN.test", "/", "a.png">>),
   Some(<<"data:", "abc">>),
   Some(<<"//", "cdn.test", "/", "a.png">>),
   Some(<<"/", "uploads", "/", "a.png">>),
   Some(<<"uploads", "/", "a.png">>),
   Some(<<"a.png">>),
   Some(<<"..", "/", "a.png">>)}

\* The values VITE_API_BASE_URL is built with: unset, empty, http(s) URLs
\* with and without a path, and a path only.
BaseUrls ==
  {Null, Some(<<>>),
   Some(<<"http:", "//", "api.test">>),
   Some(<<"https:", "//", "api.test", "/", "api", "/", "v1">>),
   Some(<<"https:", "//", "api.test", "/", "api", "/">>),
   Some(<<"/", "api">>)}

InitAsset ==
  /\ ApiIdle
  /\ ItemIdle
  /\ RenderIdle
  /\ viewer = Anonymous
  /\ API_BASE_URL \in BaseUrls
  /\ asset = NoAsset
  /\ PageIdle

\* transformBlog / transformComment resolve an avatar (api.ts:100, 607).
ResolveAsset(a) ==
  /\ asset' = [pc |-> "once", assetUrl |-> a,
               once |-> resolveAssetUrl(a, API_BASE_URL), twice |-> <<>>]
  /\ asset' # asset
  /\ UNCHANGED <<apiVars, viewer, itemVars, renderVars, API_BASE_URL, pageVars>>

\* The resolved value is resolved again.
ResolveAgain ==
  /\ asset.pc = "once"
  /\ asset' = [asset EXCEPT !.pc = "twice",
                            !.twice = resolveAssetUrl(Some(asset.once), API_BASE_URL)]
  /\ UNCHANGED <<apiVars, viewer, itemVars, renderVars, API_BASE_URL, pageVars>>

NextAsset ==
  \/ \E a \in AssetUrls : ResolveAsset(a)
  \/ ResolveAgain

SpecAsset == InitAsset /\ [][NextAsset]_vars

-----------------------------------------------------------------------------
(* SpecTransform: the objects the adapter builds from backend objects      *)
(* (api.ts:78-108, 602-613).  Identifiers, names and statuses are strings, *)
(* avatar and cover URLs are token strings as in SpecAsset.  The text      *)
(* fields transformBlog copies with `|| ''` are represented by slug.       *)

\* user?.field: undefined when the object itself is missing.
Field(obj, name) == IF obj = Null THEN Null ELSE Get(obj)[name]

\* a || b || '' on optional strings.
FirstOf(a, b) == Get(OrElse(OrElse(a, b), Some("")))

\* a || '' on an optional token string.
TextOrEmpty(a) == IF Falsy(a) THEN <<>> ELSE Get(a)

\* api.ts:78-85
transformAuthUser(user) ==
  [id |-> FirstOf(Field(user, "id"), Field(user, "_id")),
   name |-> Get(OrElse(Field(user, "name"), Some(""))),
   email |-> Get(OrElse(Field(user, "email"), Some(""))),
   avatar |-> TextOrEmpty(Field(user, "avatar"))]

\* api.ts:88-108, with API_BASE_URL passed as `base`.
transformBlog(backendBlog, base) ==
  [id |-> FirstOf(backendBlog._id, backendBlog.id),
   slug |-> Get(OrElse(backendBlog.slug, Some(""))),
   coverImage |-> TextOrEmpty(backendBlog.cover_image),
   author |-> [id |-> FirstOf(Field(backendBlog.user_id, "_id"),
                              Field(backendBlog.user_id, "id")),
               name |-> Get(OrElse(Field(backendBlog.user_id, "name"),
                                   Some("Unknown"))),
               avatar |-> resolveAssetUrl(Field(backendBlog.user_id, "avatar"), base)],
   status |-> Get(OrElse(backendBlog.status, Some("published"))),
   rejectionReason |-> backendBlog.rejectionReason]

\* api.ts:602-613, with API_BASE_URL passed as `base`.  `replies` is Null
\* when the backend sent no array.
RECURSIVE transformComment(_, _)
transformComment(c, base) ==
  [id |-> c.id,
   author |-> [name |-> Field(c.author, "name"),
               avatar |-> IF Falsy(Field(c.author, "avatar")) THEN Null
                          ELSE Some(resolveAssetUrl(Field(c.author, "avatar"), base))],
   replies |-> IF c.replies = Null THEN <<>>
               ELSE [i \in 1..Len(Get(c.replies)) |->
                       transformComment(Get(c.replies)[i], base)]]

\* The backend's user objects: absent, or with either identifier field.
BackendAuthUser(id, oid, avatar) ==
  Some([id |-> id, _id |-> oid, name |-> Some("Ann"), email |-> Some("a@x.test"),
        avatar |-> avatar])

BackendAuthUsers ==
  {Null} \cup
  {BackendAuthUser(ids[1], ids[2], av) :
     ids \in {<<Null, Null>>, <<Some("u1"), Null>>, <<Null, Some("u1")>>,
              <<Some(""), Some("u2")>>},
     av \in AssetUrls}

\* Avatars of populated authors: missing, absolute, path-absolute, relative.
AuthorAvatars ==
  {Null,
   Some(<<"https:", "//", "cdn.test">>),
   Some(<<"/", "uploads", "/", "a.png">>),
   Some(<<"a.png">>)}

BackendBlog(cover, user, status) ==
  [_id |-> Some("b1"), id |-> Null, slug |-> Some("s1"), cover_image |-> cover,
   user_id |-> user, status |-> status, rejectionReason |-> Null]

BackendBlogs ==
  {BackendBlog(cover, user, status) :
     cover \in AssetUrls,
     user \in {Null} \cup {BackendAuthUser(Null, Some("u1"), av) : av \in AuthorAvatars},
     status \in {Null, Some("draft")}}

BackendComment(id, author, replies) == [id |-> id, author |-> author, replies |-> replies]
CommentAuthor(avatar) == Some([name |-> Some("Ann"), avatar |-> avatar])

\* Comments of depth one to three.
BackendReplies ==
  {BackendComment("r1", CommentAuthor(av),
                  Some(<<BackendComment("r2", CommentAuthor(av2), Null)>>)) :
     av \in AuthorAvatars, av2 \in {Null, Some(<<"uploads", "/", "a.png">>)}}

BackendComments ==
  {BackendComment("c1", au, rs) :
     au \in {Null} \cup {CommentAuthor(av) : av \in AuthorAvatars},
     rs \in {Null, Some(<<>>)} \cup {Some(<<r>>) : r \in BackendReplies}}

NotTransformed == [fn |-> "none"]

InitTransform ==
  /\ ApiIdle
  /\ ItemIdle
  /\ RenderIdle
  /\ viewer = Anonymous
  /\ API_BASE_URL \in BaseUrls
  /\ asset = NoAsset
  /\ transformed = NotTransformed
  /\ feed = <<>> /\ form = <<>> /\ detail = <<>> /\ tagInput = <<>> /\ clock = <<>> /\ settled = <<>>

TransformFrame ==
  UNCHANGED <<apiVars, viewer, itemVars, renderVars, assetVars,
              feed, form, detail, tagInput, clock, settled>>

\* authApi.login, profileApi.getMyProfile / updateMyProfile (api.ts:276, 314, 336)
TransformAuthUser(u) ==
  /\ transformed' = [fn |-> "transformAuthUser", input |-> u,
                     output |-> transformAuthUser(u)]
  /\ TransformFrame

\* blogApi.getBlogs, getBlogBySlug, getMyBlogs, createBlog, updateBlog
TransformBlog(bb) ==
  /\ transformed' = [fn |-> "transformBlog", input |-> bb,
                     output |-> transformBlog(bb, API_BASE_URL)]
  /\ TransformFrame

\* commentApi.getComments, createComment, replyToComment, reportComment
TransformComment(c) ==
  /\ transformed' = [fn |-> "transformComment", input |-> c,
                     output |-> transformComment(c, API_BASE_URL)]
  /\ TransformFrame

NextTransform ==
  \/ \E u \in BackendAuthUsers : TransformAuthUser(u)
  \/ \E bb \in BackendBlogs : TransformBlog(bb)
  \/ \E c \in BackendComments : TransformComment(c)

SpecTransform == InitTransform /\ [][NextTransform]_vars

-----------------------------------------------------------------------------
(* SpecFeed: the home page's feed (Home.tsx:13-62, 143-152, 161-168,       *)
(* 179-224) under the application's QueryClient (App.tsx:20: default       *)
(* options, so a query is stale at once and is fetched again when the      *)
(* window regains focus).  A query is identified by its key <<page, tag>>; *)
(* its queryFn closes over the page and tag of its key.  At most one fetch *)
(* per key is in flight.  A blog is identified by the tag and page the     *)
(* backend lists it under.                                                 *)

TotalPages == 2
MaxListed == 4
FeedTags == {"", "cats"}
QueryKeys == (1..TotalPages) \X FeedTags

Blog(tag, page) == <<tag, page>>

\* blogApi.getBlogs(page, 'published', tag), resolved with data
\* (api.ts:389-420): the page's blogs and the number of pages.
getBlogs(page, tag) == [blogs |-> <<Blog(tag, page)>>, totalPages |-> TotalPages]

\* Home.tsx:23-28: what queryFn of the query `key` does to the list.
setBlogs(blogs, key, data) ==
  IF key[1] = 1 THEN data.blogs ELSE blogs \o data.blogs

\* Mutant: a response whose key is not the current one is discarded.
queryFn_DiscardsStale(f, key, response) ==
  IF response = "data"
    THEN [f EXCEPT !.blogs = IF key = <<f.page, f.selectedTag>>
                               THEN setBlogs(f.blogs, key, getBlogs(key[1], key[2]))
                               ELSE f.blogs,
                   !.cache[key] = Some(getBlogs(key[1], key[2]).totalPages),
                   !.inflight = f.inflight \ {key}]
    ELSE [f EXCEPT !.inflight = f.inflight \ {key}]

\* Home.tsx:21-32: the fetch of the query `key` settles.
queryFn(f, key, response) ==
  IF response = "data"
    THEN [f EXCEPT !.blogs = setBlogs(f.blogs, key, getBlogs(key[1], key[2])),
                   !.cache[key] = Some(getBlogs(key[1], key[2]).totalPages),
                   !.inflight = f.inflight \ {key}]
    ELSE [f EXCEPT !.inflight = f.inflight \ {key}]

\* useQuery after a render: a key the observer was not on is fetched.
Observe(f, oldKey) ==
  IF <<f.page, f.selectedTag>> # oldKey
    THEN [f EXCEPT !.inflight = f.inflight \cup {<<f.page, f.selectedTag>>}]
    ELSE f

\* Mutant: the list is kept when the filter changes.
handleTagSelect_KeepsBlogs(f, tag) ==
  [f EXCEPT !.selectedTag = tag, !.tagSearch = "", !.page = 1]

\* Home.tsx:45-50
handleTagSelect(f, tag) ==
  [f EXCEPT !.selectedTag = tag, !.tagSearch = "", !.page = 1, !.blogs = <<>>]

\* Home.tsx:52-56
clearTagFilter(f) ==
  [f EXCEPT !.selectedTag = "", !.page = 1, !.blogs = <<>>]

\* Home.tsx:58-62, with `data` the cached data of the current key.
loadMore(f) ==
  LET data == f.cache[<<f.page, f.selectedTag>>]
  IN IF IsSome(data) /\ f.page < Get(data)
       THEN [f EXCEPT !.page = f.page + 1]
       ELSE f

\* useQuery's data, isFetching and isLoading for the current key.
FeedData == feed.cache[<<feed.page, feed.selectedTag>>]
isFetching == <<feed.page, feed.selectedTag>> \in feed.inflight
isLoading == FeedData = Null /\ isFetching

\* Home.tsx:179, 194, 207-219: the Load more button is shown and enabled.
LoadMoreShown ==
  /\ ~(isLoading /\ feed.page = 1)
  /\ feed.blogs # <<>>
  /\ IsSome(FeedData) /\ feed.page < Get(FeedData)
  /\ ~isFetching

NoFeedEvent == [kind |-> "mounted", key |-> <<1, "">>]
FeedEvent(kind, key) == [kind |-> kind, key |-> key]

\* Home.tsx:14-17 and the first fetch of ['blogs', 1, ''].
InitFeed ==
  /\ ApiIdle
  /\ ItemIdle
  /\ RenderIdle
  /\ viewer = Anonymous
  /\ AssetIdle
  /\ transformed = <<>> /\ form = <<>> /\ detail = <<>> /\ tagInput = <<>> /\ clock = <<>> /\ settled = <<>>
  /\ feed = [page |-> 1, selectedTag |-> "", tagSearch |-> "", blogs |-> <<>>,
             cache |-> [k \in QueryKeys |-> Null], inflight |-> {<<1, "">>},
             filtered |-> FALSE, event |-> NoFeedEvent]

FeedFrame ==
  UNCHANGED <<apiVars, viewer, itemVars, renderVars, assetVars,
              transformed, form, detail, tagInput, clock, settled>>

\* Home.tsx:139: the search box is typed into or emptied.
SetTagSearch(text) ==
  /\ text # feed.tagSearch
  /\ feed' = [feed EXCEPT !.tagSearch = text,
                          !.event = FeedEvent("setTagSearch", <<feed.page, feed.selectedTag>>)]
  /\ FeedFrame

\* Home.tsx:143-152: a suggestion is clicked.
HandleTagSelect(tag) ==
  /\ feed.tagSearch # ""
  /\ feed' = [Observe(handleTagSelect(feed, tag), <<feed.page, feed.selectedTag>>)
                EXCEPT !.filtered = TRUE,
                       !.event = FeedEvent("handleTagSelect", <<1, tag>>)]
  /\ FeedFrame

\* Home.tsx:161-168: the X of the active filter is clicked.
ClearTagFilter ==
  /\ feed.selectedTag # ""
  /\ feed' = [Observe(clearTagFilter(feed), <<feed.page, feed.selectedTag>>)
                EXCEPT !.filtered = TRUE,
                       !.event = FeedEvent("clearTagFilter", <<1, "">>)]
  /\ FeedFrame

\* Home.tsx:207-219: Load more is clicked.
LoadMore ==
  /\ LoadMoreShown
  /\ feed' = [Observe(loadMore(feed), <<feed.page, feed.selectedTag>>)
                EXCEPT !.event = FeedEvent("loadMore", <<feed.page + 1, feed.selectedTag>>)]
  /\ FeedFrame

\* The window regains focus or the network comes back: the current query,
\* stale at once, is fetched again unless its fetch is in flight.
RefetchFeed ==
  /\ ~isFetching
  /\ feed' = [feed EXCEPT !.inflight = feed.inflight \cup {<<feed.page, feed.selectedTag>>},
                          !.event = FeedEvent("refetch", <<feed.page, feed.selectedTag>>)]
  /\ FeedFrame

\* A fetch in flight settles, with data or with an error.
BlogsSettle(key, response) ==
  /\ key \in feed.inflight
  /\ Len(feed.blogs) < MaxListed
  /\ feed' = [queryFn(feed, key, response)
                EXCEPT !.event = FeedEvent(IF response = "data" THEN "resolved"
                                           ELSE "failed", key)]
  /\ FeedFrame

NextFeed ==
  \/ \E text \in {"", "c"} : SetTagSearch(text)
  \/ \E tag \in FeedTags \ {""} : HandleTagSelect(tag)
  \/ ClearTagFilter
  \/ LoadMore
  \/ RefetchFeed
  \/ \E key \in QueryKeys, response \in {"data", "error"} : BlogsSettle(key, response)

SpecFeed == InitFeed /\ [][NextFeed]_vars

-----------------------------------------------------------------------------
(* SpecClock: renders of one thread while time passes.  Times are seconds; *)
(* a year has 365 days and the time zone is UTC.  The tree, the viewer and *)
(* the showReplies flags do not change.                                    *)

Minute == 60
Hour == 3600
Day == 86400
Week == 604800
Year == 31536000

\* new Date(dateString) of a string that is not a date.
InvalidDate == -1

\* Mutant: a comment exactly one minute old is still 'just now'.
formatDate_LateMinute(date, now) ==
  LET diffInSeconds == now - date
  IN IF date = InvalidDate THEN [kind |-> "Invalid Date", n |-> 0, year |-> Null]
     ELSE IF diffInSeconds <= Minute THEN [kind |-> "just now", n |-> 0, year |-> Null]
     ELSE IF diffInSeconds < Hour THEN [kind |-> "m ago", n |-> diffInSeconds \div Minute, year |-> Null]
     ELSE IF diffInSeconds < Day THEN [kind |-> "h ago", n |-> diffInSeconds \div Hour, year |-> Null]
     ELSE IF diffInSeconds < Week THEN [kind |-> "d ago", n |-> diffInSeconds \div Day, year |-> Null]
     ELSE [kind |-> "date", n |-> (date % Year) \div Day,
           year |-> IF date \div Year # now \div Year THEN Some(date \div Year) ELSE Null]

\* BlogComment.tsx:20-35, with new Date() passed as `now`.  A date label is
\* the day of the year, with the year when it is not the current one.
formatDate(date, now) ==
  LET diffInSeconds == now - date
  IN IF date = InvalidDate THEN [kind |-> "Invalid Date", n |-> 0, year |-> Null]
     ELSE IF diffInSeconds < Minute THEN [kind |-> "just now", n |-> 0, year |-> Null]
     ELSE IF diffInSeconds < Hour THEN [kind |-> "m ago", n |-> diffInSeconds \div Minute, year |-> Null]
     ELSE IF diffInSeconds < Day THEN [kind |-> "h ago", n |-> diffInSeconds \div Hour, year |-> Null]
     ELSE IF diffInSeconds < Week THEN [kind |-> "d ago", n |-> diffInSeconds \div Day, year |-> Null]
     ELSE [kind |-> "date", n |-> (date % Year) \div Day,
           year |-> IF date \div Year # now \div Year THEN Some(date \div Year) ELSE Null]

\* The first render happens two years and 300 days after the epoch.
FirstRenderAt == 2 * Year + 300 * Day
MaxTicks == 3

\* comment.createdAt: seconds, hours and weeks before the first render, the
\* year before, after it (a clock ahead), and not a date.
CreatedAts ==
  {FirstRenderAt - 30, FirstRenderAt - 2 * Hour, FirstRenderAt - Year,
   FirstRenderAt + Hour, InvalidDate}

\* Time that passes between two renders.
Ticks == {30, Hour, 4 * Day, 70 * Day}

\* The output of a render at `now`: the comments on screen with their text
\* (BlogComment.tsx:132-180) and the time label of each (line 160).
Output(now) ==
  [at |-> now,
   screen |-> Screen,
   label |-> [r \in Screen |-> formatDate(clock.createdAt[r.id], now)]]

InitClock ==
  /\ ApiIdle
  /\ ItemIdle
  /\ AssetIdle
  /\ transformed = <<>> /\ feed = <<>> /\ form = <<>> /\ detail = <<>> /\ tagInput = <<>>
  /\ settled = <<>>
  /\ viewer \in {Anonymous, SignedIn("u1")}
  /\ tree \in {t \in Trees : t[1].author = "u1" /\ t[1].status \in {"active", "hidden"}
                             /\ \A i \in 2..NumComments :
                                  t[i].author = "u2" /\ t[i].status = "active"}
  /\ expanded = [i \in 1..NumComments |-> TRUE]
  /\ \E c \in CreatedAts :
       clock = [now |-> FirstRenderAt, ticks |-> 0, first |-> Null, last |-> Null,
                createdAt |-> [i \in 1..NumComments |-> IF i = 1 THEN c ELSE FirstRenderAt - 30]]

ClockFrame ==
  UNCHANGED <<apiVars, viewer, itemVars, renderVars, assetVars,
              transformed, feed, form, detail, tagInput, settled>>

\* Time passes.
Tick(seconds) ==
  /\ clock.ticks < MaxTicks
  /\ clock' = [clock EXCEPT !.now = clock.now + seconds, !.ticks = clock.ticks + 1]
  /\ ClockFrame

\* React renders the thread: every formatDate call reads the clock anew.
RenderThread ==
  /\ clock' = [clock EXCEPT !.first = IF clock.first = Null THEN Some(Output(clock.now))
                                      ELSE clock.first,
                            !.last = Some(Output(clock.now))]
  /\ ClockFrame

NextClock ==
  \/ \E seconds \in Ticks : Tick(seconds)
  \/ RenderThread

SpecClock == InitClock /\ [][NextClock]_vars

-----------------------------------------------------------------------------
(* SpecOps: what every exported operation of the adapter settles with for  *)
(* a response (api.ts:260-339, 388-554, 615-765).  The payload keeps what  *)
(* the operations test: whether `data` is there and whether it is an       *)
(* array.                                                                  *)

\* if (response.error) return { error: response.error }, then a result built
\* by reading a field of response.data or by transforming it: a TypeError,
\* and so a rejected promise, when the envelope has no data.
ReadsData(response) ==
  IF Truthy(response.error) THEN ErrorResult(Get(response.error))
  ELSE IF response.data = Null THEN Rejected
  ELSE DataResult(response.data)

\* api.ts:261-280: response.data!.token, transformAuthUser(response.data!.user)
login(resp) == ReadsData(apiRequest(resp).result)

\* api.ts:282-286: the result of apiRequest as it is.
register(resp) == apiRequest(resp).result
\* api.ts:288-292
forgotPassword(resp) == apiRequest(resp).result
\* api.ts:294-298
resetPassword(resp) == apiRequest(resp).result

\* api.ts:307-317: transformAuthUser(response.data!.user)
getMyProfile(resp) == ReadsData(apiRequest(resp).result)
\* api.ts:319-339
updateMyProfile(resp) == ReadsData(apiRequest(resp).result)

\* api.ts:398-419 and 443-464: the blogs of the payload when it is an array,
\* and the backend's pagination or the default one.
BlogsData(backendResponse) ==
  LET blogs == IF IsSome(backendResponse.data) /\ Get(backendResponse.data).isArray
                 THEN Get(backendResponse.data).items ELSE <<>>
      pagination == IF IsSome(backendResponse.pagination)
                      THEN Get(backendResponse.pagination)
                      ELSE [page |-> 1, limit |-> 10, total |-> Len(blogs), pages |-> 1]
  IN [blogs |-> blogs, page |-> pagination.page, totalPages |-> pagination.pages,
      total |-> pagination.total]

\* blogApi.getBlogs, api.ts:389-420
blogApiGetBlogs(resp) ==
  LET response == apiRequestWithPagination(resp).result
  IN IF Truthy(response.error) THEN ErrorResult(Get(response.error))
     ELSE DataResult(Some(BlogsData(Get(response.data))))

\* api.ts:434-465
getMyBlogs(resp) ==
  LET response == apiRequestWithPagination(resp).result
  IN IF Truthy(response.error) THEN ErrorResult(Get(response.error))
     ELSE DataResult(Some(BlogsData(Get(response.data))))

\* api.ts:422-432: transformBlog(response.data) reads backendBlog._id.
getBlogBySlug(resp) == ReadsData(apiRequest(resp).result)
\* api.ts:467-499
createBlog(resp) == ReadsData(apiRequest(resp).result)
\* api.ts:501-530
updateBlog(resp) == ReadsData(apiRequest(resp).result)

\* api.ts:532-553: the tags of the payload when it is an array, else [].
searchTags(resp) ==
  LET response == apiRequest(resp).result
  IN IF Truthy(response.error) THEN ErrorResult(Get(response.error))
     ELSE DataResult(Some(IF IsSome(response.data) /\ Get(response.data).isArray
                            THEN Get(response.data).items ELSE <<>>))

\* api.ts:620-686: the typed request, then the direct fetch of the same URL.
getComments(resp, full) ==
  LET response == apiRequest(resp).result
  IN IF Truthy(response.error) THEN ErrorResult(Get(response.error))
     ELSE getCommentsDirect(full).result

AuthOps == {"login", "register", "forgotPassword", "resetPassword"}
ProfileOps == {"getMyProfile", "updateMyProfile"}
BlogOps == {"getBlogs", "getBlogBySlug", "getMyBlogs", "createBlog", "updateBlog",
            "searchTags"}
CommentOps == {"createComment", "replyToComment", "deleteComment", "reportComment"}

\* What the operation `name` settles with when the backend answers `resp`.
Operation(name, resp) ==
  CASE name = "login" -> login(resp)
    [] name = "register" -> register(resp)
    [] name = "forgotPassword" -> forgotPassword(resp)
    [] name = "resetPassword" -> resetPassword(resp)
    [] name = "getMyProfile" -> getMyProfile(resp)
    [] name = "updateMyProfile" -> updateMyProfile(resp)
    [] name = "getBlogs" -> blogApiGetBlogs(resp)
    [] name = "getBlogBySlug" -> getBlogBySlug(resp)
    [] name = "getMyBlogs" -> getMyBlogs(resp)
    [] name = "createBlog" -> createBlog(resp)
    [] name = "updateBlog" -> updateBlog(resp)
    [] name = "searchTags" -> searchTags(resp)
    [] name = "createComment" -> createComment(resp)
    [] name = "replyToComment" -> replyToComment(resp)
    [] name = "deleteComment" -> deleteComment(resp)
    [] name = "reportComment" -> reportComment(resp)

NoOperation == [name |-> "none", resp |-> NoResponse, full |-> NoResponse,
                result |-> NoResult]

InitOps ==
  /\ ApiIdle
  /\ ItemIdle
  /\ RenderIdle
  /\ AssetIdle
  /\ viewer = Anonymous
  /\ transformed = <<>> /\ feed = <<>> /\ form = <<>> /\ detail = <<>> /\ tagInput = <<>>
  /\ clock = <<>>
  /\ settled = NoOperation

OpsFrame ==
  UNCHANGED <<apiVars, viewer, itemVars, renderVars, assetVars,
              transformed, feed, form, detail, tagInput, clock>>

\* An operation of authApi, profileApi, blogApi or one of commentApi's
\* mutations is called and the backend answers.  One call is followed.
OperationSettles(name, resp) ==
  /\ settled = NoOperation
  /\ settled' = [name |-> name, resp |-> resp, full |-> NoResponse,
            result |-> Operation(name, resp)]
  /\ OpsFrame

\* commentApi.getComments is called and the backend answers its two requests.
GetCommentsSettles(resp, full) ==
  /\ settled = NoOperation
  /\ settled' = [name |-> "getComments", resp |-> resp, full |-> full,
            result |-> getComments(resp, full)]
  /\ OpsFrame

NextOps ==
  \/ \E name \in AuthOps \cup ProfileOps \cup BlogOps \cup CommentOps, resp \in Responses :
       OperationSettles(name, resp)
  \/ \E resp \in Responses, full \in Responses : GetCommentsSettles(resp, full)

SpecOps == InitOps /\ [][NextOps]_vars

-----------------------------------------------------------------------------
(* SpecForm: one mounted form page (Login, Register, Write, MyProfile) and *)
(* its submissions.  `loading` is the page's flag: isLoading of Login and  *)
(* Register, isSubmitting of Write, isSaving of MyProfile; it disables the *)
(* submit button.  A handler is modelled in two parts: up to its await,    *)
(* and from the settled result on.                                         *)

FormPages == {"Login", "Register", "Write", "MyProfile"}

\* What the fields hold when the form is submitted.  Login and Register are
\* validated by their zod schema; Write and MyProfile by their handler.
FormInputs ==
  {"ok", "invalid", "noTitle", "shortTitle", "noDescription", "shortDescription",
   "noContent", "noName"}
InputsOf(page) ==
  CASE page \in {"Login", "Register"} -> {"ok", "invalid"}
    [] page = "Write" -> {"ok", "noTitle", "shortTitle", "noDescription",
                          "shortDescription", "noContent"}
    [] page = "MyProfile" -> {"ok", "noName"}

\* The answers of the backend a form is run against.
FormResponses ==
  {TransportFailure,
   HttpResponse(429, Null, Envelope(FALSE, Str("X"), Absent, Null, Null)),
   HttpResponse(500, Null, Envelope(FALSE, Str("X"), Absent, Null, Null)),
   HttpResponse(200, Null, UndecodableBody),
   HttpResponse(200, Null, Envelope(TRUE, Str("OK"), Absent, Some(ObjectPayload), Null)),
   HttpResponse(200, Null, Envelope(TRUE, Str("OK"), Absent, Null, Null))}

\* setIsLoading(true) and the request of a handler that passed its checks.
Requested(f) == [f EXCEPT !.loading = TRUE, !.inflight = f.inflight + 1,
                          !.toast = NoToast]
FormError(f, text) == [f EXCEPT !.toast = ToastError(text)]

\* Login.onSubmit up to its await (part_002:181-190)
loginOnSubmit(f) == IF f.loading THEN f ELSE Requested(f)

\* Register.onSubmit up to its await (Register.tsx:40-50)
registerOnSubmit(f) == IF f.loading THEN f ELSE Requested(f)

\* Mutant: handlePublish does not raise isSubmitting.
handlePublish_NoFlag(f) ==
  IF f.loading THEN f
  ELSE IF f.input = "noTitle" THEN FormError(f, "Please add a title for your blog post.")
  ELSE IF f.input = "shortTitle" THEN FormError(f, "Title must be at least 10 characters long.")
  ELSE IF f.input = "noDescription"
    THEN FormError(f, "Please add a description for your blog post.")
  ELSE IF f.input = "shortDescription"
    THEN FormError(f, "Description must be at least 10 characters long.")
  ELSE IF f.input = "noContent"
    THEN FormError(f, "Please add some content to your blog post.")
  ELSE [f EXCEPT !.inflight = f.inflight + 1, !.toast = NoToast]

\* Write.handlePublish up to its await (part_002:415-446, 468)
handlePublish(f) ==
  IF f.loading THEN f
  ELSE IF f.input = "noTitle" THEN FormError(f, "Please add a title for your blog post.")
  ELSE IF f.input = "shortTitle" THEN FormError(f, "Title must be at least 10 characters long.")
  ELSE IF f.input = "noDescription"
    THEN FormError(f, "Please add a description for your blog post.")
  ELSE IF f.input = "shortDescription"
    THEN FormError(f, "Description must be at least 10 characters long.")
  ELSE IF f.input = "noContent"
    THEN FormError(f, "Please add some content to your blog post.")
  ELSE Requested(f)

\* MyProfile.handleSubmit up to its await (part_001:69-81).  It dismisses
\* no toast.
handleSubmit(f) ==
  IF f.loading THEN f
  ELSE IF f.input = "noName" THEN FormError(f, "Name is required")
  ELSE [f EXCEPT !.loading = TRUE, !.inflight = f.inflight + 1]

\* The handler's await threw: nothing after it runs.
Abandoned(f) == [f EXCEPT !.inflight = f.inflight - 1]
Failed(f, response) ==
  [f EXCEPT !.inflight = f.inflight - 1, !.toast = ToastError(Get(response.error)),
            !.loading = FALSE]

\* Login.onSubmit after authApi.login settled (part_002:192-205)
loginSettled(f, response) ==
  IF response.kind = "rejected" THEN Abandoned(f)
  ELSE IF Truthy(response.error) THEN Failed(f, response)
  ELSE IF IsSome(response.data)
    THEN [f EXCEPT !.inflight = f.inflight - 1, !.toast = ToastSuccess("Welcome back!"),
                   !.navigated = Some("from"), !.loading = FALSE]
    ELSE [f EXCEPT !.inflight = f.inflight - 1, !.loading = FALSE]

\* Register.onSubmit after authApi.register settled (Register.tsx:52-61)
registerSettled(f, response) ==
  IF response.kind = "rejected" THEN Abandoned(f)
  ELSE IF Truthy(response.error) THEN Failed(f, response)
  ELSE [f EXCEPT !.inflight = f.inflight - 1,
                 !.toast = ToastSuccess("Account created! Please sign in with your new account."),
                 !.navigated = Some("/login"), !.loading = FALSE]

\* Write.handlePublish after updateBlog / createBlog settled
\* (part_002:459-499): isSubmitting is lowered on an error only.
publishSettled(f, response) ==
  IF response.kind = "rejected" THEN Abandoned(f)
  ELSE IF Truthy(response.error) THEN Failed(f, response)
  ELSE [f EXCEPT !.inflight = f.inflight - 1,
                 !.toast = ToastSuccess(IF f.isEditMode THEN "Your blog post has been updated."
                                        ELSE IF f.status = "published" THEN "Submitted for Review!"
                                        ELSE "Saved as draft!"),
                 !.navigated = Some(IF IsSome(response.data) THEN "/blog/:slug"
                                    ELSE "/my-blogs")]

\* MyProfile.handleSubmit after updateMyProfile settled (part_001:83-97)
saveSettled(f, response) ==
  IF response.kind = "rejected" \/ (~Truthy(response.error) /\ response.data = Null)
    THEN Abandoned(f)
  ELSE IF Truthy(response.error) THEN Failed(f, response)
  ELSE [f EXCEPT !.inflight = f.inflight - 1,
                 !.toast = ToastSuccess("Profile updated successfully"),
                 !.loading = FALSE]

\* The submit button's disabled attribute (Register.tsx:161, part_002:295,
\* 538, part_001:155).
SubmitDisabled(f) == f.loading

\* The handler a page binds to its form or button.
SubmitHandler(f) ==
  CASE f.page = "Login" -> loginOnSubmit(f)
    [] f.page = "Register" -> registerOnSubmit(f)
    [] f.page = "Write" -> handlePublish(f)
    [] f.page = "MyProfile" -> handleSubmit(f)

\* The operation the page's request goes to, and the rest of its handler.
SettledHandler(f, resp) ==
  CASE f.page = "Login" -> loginSettled(f, login(resp))
    [] f.page = "Register" -> registerSettled(f, register(resp))
    [] f.page = "Write" ->
         publishSettled(f, IF f.isEditMode THEN updateBlog(resp) ELSE createBlog(resp))
    [] f.page = "MyProfile" -> saveSettled(f, updateMyProfile(resp))

InitForm ==
  /\ ApiIdle
  /\ ItemIdle
  /\ RenderIdle
  /\ AssetIdle
  /\ viewer = Anonymous
  /\ transformed = <<>> /\ feed = <<>> /\ detail = <<>> /\ tagInput = <<>>
  /\ clock = <<>> /\ settled = <<>>
  /\ \E page \in FormPages, edit \in BOOLEAN, status \in {"published", "draft"} :
       /\ page # "Write" => (~edit /\ status = "published")
       /\ edit => status = "published"
       /\ form = [page |-> page, isEditMode |-> edit, status |-> status,
                  input |-> "ok", loading |-> FALSE, inflight |-> 0,
                  toast |-> NoToast, navigated |-> Null,
                  event |-> [kind |-> "mounted", resp |-> NoResponse]]

FormFrame ==
  UNCHANGED <<apiVars, viewer, itemVars, renderVars, assetVars,
              transformed, feed, detail, tagInput, clock, settled>>

\* The page is on screen: a successful submission navigates away from it.
Mounted == form.navigated = Null

\* The user edits the fields.
ChangeInput(input) ==
  /\ Mounted
  /\ input \in InputsOf(form.page)
  /\ input # form.input
  /\ form' = [form EXCEPT !.input = input,
                          !.event = [kind |-> "changed", resp |-> NoResponse]]
  /\ FormFrame

\* The user presses the submit button (or Enter in a field of Login or
\* Register).  A disabled button runs nothing; react-hook-form calls
\* onSubmit only when the schema accepts the fields.
Submit ==
  /\ Mounted
  /\ form' = IF SubmitDisabled(form)
               THEN [form EXCEPT !.event = [kind |-> "ignored", resp |-> NoResponse]]
             ELSE IF form.input = "invalid"
               THEN [form EXCEPT !.event = [kind |-> "rejected by schema", resp |-> NoResponse]]
             ELSE [SubmitHandler(form) EXCEPT
                     !.event = [kind |-> "submitted", resp |-> NoResponse]]
  /\ FormFrame

\* The request of a submission is answered.
SubmissionSettles(resp) ==
  /\ form.inflight > 0
  /\ form' = [SettledHandler(form, resp) EXCEPT
                !.event = [kind |-> "settled", resp |-> resp]]
  /\ FormFrame

NextForm ==
  \/ \E input \in FormInputs : ChangeInput(input)
  \/ Submit
  \/ \E resp \in FormResponses : SubmissionSettles(resp)

SpecForm == InitForm /\ [][NextForm]_vars

-----------------------------------------------------------------------------
(* SpecDetail: the blog detail page (part_003:27-78) for a viewer.  The    *)
(* viewer's profile is what transformAuthUser made of the backend's user   *)
(* object at login, the blog what transformBlog made of the backend's blog *)
(* (no asset base is configured here).  useAuth gives the stored profile;  *)
(* viewer.user holds its id.                                               *)

BlogStatuses == {"draft", "pending_approval", "rejected", "published"}

\* The backend's user objects of viewers: u1 under `id`, u2 under `_id`,
\* u1 under `_id` with an empty `id`, and one with neither field.
DetailUsers ==
  {BackendAuthUser(Some("u1"), Null, Null),
   BackendAuthUser(Null, Some("u2"), Null),
   BackendAuthUser(Some(""), Some("u1"), Null),
   BackendAuthUser(Null, Null, Null)}

\* The backend's blogs: any status (or none), the author populated with u1
\* under `_id`, u2 under `id`, without identifier, or not populated.
DetailBlogs ==
  {BackendBlog(Null, user, status) :
     user \in {Null,
               Some([_id |-> Some("u1"), id |-> Null, name |-> Some("Ann"), avatar |-> Null]),
               Some([_id |-> Null, id |-> Some("u2"), name |-> Some("Bob"), avatar |-> Null]),
               Some([_id |-> Null, id |-> Null, name |-> Some("Cy"), avatar |-> Null])},
     status \in {Null} \cup {Some(s) : s \in BlogStatuses}}

\* part_003:43
BlogDetailIsOwner(v, blog) ==
  v.isAuthenticated /\ IsSome(v.user) /\ IsSome(blog) /\ Get(v.user) = Get(blog).author.id

\* part_003:45
isPrivateStatus(blog) ==
  IsSome(blog) /\ Get(blog).status \in {"draft", "pending_approval", "rejected"}

\* Mutant: a viewer or a blog without identifier has no owner.
isDraftAndNotOwner_IdRequired(v, blog) ==
  isPrivateStatus(blog) /\ ~(BlogDetailIsOwner(v, blog) /\ Get(v.user) # "")

\* part_003:46
isDraftAndNotOwner(v, blog) == isPrivateStatus(blog) /\ ~BlogDetailIsOwner(v, blog)

\* What BlogDetail returns (part_003:49-78, 83-186).
BlogDetailRender(d, v) ==
  IF d.authLoading \/ d.isLoading THEN "skeleton"
  ELSE IF d.error \/ d.blog = Null \/ isDraftAndNotOwner(v, d.blog) THEN "Blog not found"
  ELSE "article"

InitDetail ==
  /\ ApiIdle
  /\ ItemIdle
  /\ RenderIdle
  /\ AssetIdle
  /\ viewer = Anonymous
  /\ transformed = <<>> /\ feed = <<>> /\ form = <<>> /\ tagInput = <<>>
  /\ clock = <<>> /\ settled = <<>>
  /\ detail = [authLoading |-> TRUE, isLoading |-> FALSE, error |-> FALSE,
               blog |-> Null, sentBlog |-> Null, sentUser |-> Null]

DetailFrame ==
  UNCHANGED <<apiVars, itemVars, renderVars, assetVars,
              transformed, feed, form, tagInput, clock, settled>>

\* The stored session is read: nobody is signed in, or the viewer whose
\* profile was stored.  The blog query becomes enabled (part_003:40).
AuthResolves(user) ==
  /\ detail.authLoading
  /\ viewer' = IF user = Null THEN Anonymous
               ELSE [isAuthenticated |-> TRUE, user |-> Some(transformAuthUser(user).id)]
  /\ detail' = [detail EXCEPT !.authLoading = FALSE, !.isLoading = TRUE,
                              !.sentUser = user]
  /\ DetailFrame

\* blogApi.getBlogBySlug resolves with the transformed blog (part_003:35-37).
BlogResolves(backendBlog) ==
  /\ detail.isLoading
  /\ detail' = [detail EXCEPT !.isLoading = FALSE,
                              !.blog = Some(transformBlog(backendBlog, Null)),
                              !.sentBlog = Some(backendBlog)]
  /\ UNCHANGED viewer
  /\ DetailFrame

\* blogApi.getBlogBySlug gives an error and the query has given up.
BlogFails ==
  /\ detail.isLoading
  /\ detail' = [detail EXCEPT !.isLoading = FALSE, !.error = TRUE]
  /\ UNCHANGED viewer
  /\ DetailFrame

\* The viewer signs out from the header while on the page.
SignOut ==
  /\ ~detail.authLoading
  /\ viewer.isAuthenticated
  /\ viewer' = Anonymous
  /\ detail' = [detail EXCEPT !.sentUser = Null]
  /\ DetailFrame

NextDetail ==
  \/ \E user \in {Null} \cup DetailUsers : AuthResolves(user)
  \/ \E backendBlog \in DetailBlogs : BlogResolves(backendBlog)
  \/ BlogFails
  \/ SignOut

SpecDetail == InitDetail /\ [][NextDetail]_vars

-----------------------------------------------------------------------------
(* SpecTags: the TagInput component (TagInput.tsx:15-215) under Write,     *)
(* which passes its `tags` state as value and setTags as onChange          *)
(* (part_002:672-677).  A string is the sequence of its characters, over   *)
(* the letters a, b, c, the capitals A, B and the space.                   *)

MAX_TAGS == 5

\* String.prototype.trim()
RECURSIVE TrimStart(_)
TrimStart(s) == IF s # <<>> /\ Head(s) = " " THEN TrimStart(Tail(s)) ELSE s
RECURSIVE TrimEnd(_)
TrimEnd(s) ==
  IF s # <<>> /\ s[Len(s)] = " " THEN TrimEnd(SubSeq(s, 1, Len(s) - 1)) ELSE s
trim(s) == TrimEnd(TrimStart(s))

\* String.prototype.toLowerCase()
LowerChar(c) == CASE c = "A" -> "a" [] c = "B" -> "b" [] OTHER -> c
toLowerCase(s) == [i \in 1..Len(s) |-> LowerChar(s[i])]

\* Array.prototype.includes
includes(list, x) == \E i \in 1..Len(list) : list[i] = x
\* Array.prototype.filter
filter(list, Keep(_)) == SelectSeq(list, Keep)

\* What can be typed or pasted into the input.
RawInputs ==
  {<<>>, <<" ">>, <<"a">>, <<" ", "A", " ">>, <<"B">>, <<"A", "b">>,
   <<"a", " ", "b">>, <<"c">>}

\* What blogApi.searchTags can answer: tags as other authors wrote them.
SuggestionLists ==
  {<<>>, <<<<"A">>>>, <<<<"a">>, <<"A", "b">>>>, <<<<" ">>, <<"c">>>>}

\* Mutant: the tag is added as it was typed.
addTag_AsTyped(t, tag) ==
  IF Len(t.value) >= MAX_TAGS THEN t
  ELSE [t EXCEPT !.value = IF tag # <<>> /\ ~includes(t.value, tag)
                             THEN Append(t.value, tag) ELSE t.value,
                 !.inputValue = <<>>, !.suggestions = <<>>,
                 !.selectedIndex = -1, !.showSuggestions = FALSE]

\* TagInput.tsx:54-70, with maxTags = MAX_TAGS
addTag(t, tag) ==
  IF Len(t.value) >= MAX_TAGS THEN t
  ELSE LET normalizedTag == toLowerCase(trim(tag))
       IN [t EXCEPT !.value = IF normalizedTag # <<>> /\ ~includes(t.value, normalizedTag)
                                THEN Append(t.value, normalizedTag) ELSE t.value,
                    !.inputValue = <<>>, !.suggestions = <<>>,
                    !.selectedIndex = -1, !.showSuggestions = FALSE]

\* TagInput.tsx:72-74
removeTag(t, tagToRemove) ==
  LET Other(tag) == tag # tagToRemove
  IN [t EXCEPT !.value = filter(t.value, Other)]

Min(a, b) == IF a < b THEN a ELSE b
Max(a, b) == IF a > b THEN a ELSE b

\* suggestions[selectedIndex] is there and is not the empty string.
SelectedSuggestion(t) ==
  /\ t.selectedIndex >= 0
  /\ t.selectedIndex < Len(t.suggestions)
  /\ t.suggestions[t.selectedIndex + 1] # <<>>

\* TagInput.tsx:76-109
handleKeyDown(t, key) ==
  IF key \in {"Enter", ",", " "}
    THEN IF Len(t.value) >= MAX_TAGS THEN t
         ELSE IF SelectedSuggestion(t) THEN addTag(t, t.suggestions[t.selectedIndex + 1])
         ELSE IF t.selectedIndex = Len(t.suggestions) /\ trim(t.inputValue) # <<>>
           THEN addTag(t, t.inputValue)
         ELSE IF trim(t.inputValue) # <<>> THEN addTag(t, t.inputValue)
         ELSE t
  ELSE IF key = "Backspace" /\ t.inputValue = <<>> /\ Len(t.value) > 0
    THEN removeTag(t, t.value[Len(t.value)])
  ELSE IF key = "ArrowDown"
    THEN LET maxIndex ==
               IF trim(t.inputValue) # <<>>
                  /\ ~includes(t.suggestions, toLowerCase(trim(t.inputValue)))
                 THEN Len(t.suggestions) ELSE Len(t.suggestions) - 1
         IN [t EXCEPT !.selectedIndex = Min(t.selectedIndex + 1, maxIndex)]
  ELSE IF key = "ArrowUp"
    THEN [t EXCEPT !.selectedIndex = Max(t.selectedIndex - 1, -1)]
  ELSE IF key = "Escape" THEN [t EXCEPT !.showSuggestions = FALSE]
  ELSE t

\* TagInput.tsx:130-136
onInputChange(t, text) ==
  [t EXCEPT !.inputValue = text,
            !.showSuggestions = IF trim(text) # <<>> THEN TRUE ELSE t.showSuggestions]

\* TagInput.tsx:25-48: the search effect's callback, for the tag list
\* `seen` it closed over and the present input; the input has the focus.
searchTagsEffect(t, seen, answer) ==
  IF trim(t.inputValue) = <<>>
    THEN [t EXCEPT !.suggestions = <<>>, !.showSuggestions = FALSE]
    ELSE LET NotIn(tag) == ~includes(seen, tag)
         IN [t EXCEPT !.suggestions = IF IsSome(answer) THEN filter(Get(answer), NotIn)
                                      ELSE <<>>,
                      !.showSuggestions = TRUE]

\* The input's disabled attribute (TagInput.tsx:153).
InputDisabled(t) == Len(t.value) >= MAX_TAGS
\* The dropdown is rendered (TagInput.tsx:158).
DropdownShown(t) ==
  t.showSuggestions /\ trim(t.inputValue) # <<>> /\ Len(t.value) < MAX_TAGS
\* The "Create new tag" option is rendered (TagInput.tsx:183).
CreateOptionShown(t) ==
  /\ DropdownShown(t)
  /\ ~includes(t.suggestions, toLowerCase(trim(t.inputValue)))
  /\ ~includes(t.value, toLowerCase(trim(t.inputValue)))

InitTags ==
  /\ ApiIdle
  /\ ItemIdle
  /\ RenderIdle
  /\ AssetIdle
  /\ viewer = Anonymous
  /\ transformed = <<>> /\ feed = <<>> /\ form = <<>> /\ detail = <<>>
  /\ clock = <<>> /\ settled = <<>>
  /\ tagInput = [value |-> <<>>, inputValue |-> <<>>, suggestions |-> <<>>,
                 showSuggestions |-> FALSE, selectedIndex |-> -1]

TagsFrame ==
  UNCHANGED <<apiVars, viewer, itemVars, renderVars, assetVars,
              transformed, feed, form, detail, clock, settled>>

\* Text is typed or pasted into the input.
ChangeTagInput(text) ==
  /\ ~InputDisabled(tagInput)
  /\ tagInput' = onInputChange(tagInput, text)
  /\ TagsFrame

\* A key is pressed in the input.
KeyDown(key) ==
  /\ ~InputDisabled(tagInput)
  /\ tagInput' = handleKeyDown(tagInput, key)
  /\ TagsFrame

\* The debounced search runs and is answered, or fails (Null); the list of
\* tags it filters with is the one of the render that started it, which may
\* be older than the present one.
SuggestionsArrive(answer, stale) ==
  /\ tagInput' = searchTagsEffect(tagInput, IF stale THEN <<>> ELSE tagInput.value, answer)
  /\ TagsFrame

\* A suggestion of the dropdown is clicked.
ClickSuggestion(i) ==
  /\ DropdownShown(tagInput)
  /\ i \in 1..Len(tagInput.suggestions)
  /\ tagInput' = addTag(tagInput, tagInput.suggestions[i])
  /\ TagsFrame

\* The "Create new tag" option is clicked.
ClickCreate ==
  /\ CreateOptionShown(tagInput)
  /\ tagInput' = addTag(tagInput, tagInput.inputValue)
  /\ TagsFrame

\* The X of a tag is clicked.
ClickRemove(i) ==
  /\ i \in 1..Len(tagInput.value)
  /\ tagInput' = removeTag(tagInput, tagInput.value[i])
  /\ TagsFrame

NextTags ==
  \/ \E text \in RawInputs : ChangeTagInput(text)
  \/ \E key \in {"Enter", ",", " ", "Backspace", "ArrowDown", "ArrowUp", "Escape"} :
       KeyDown(key)
  \/ \E answer \in {Null} \cup {Some(l) : l \in SuggestionLists}, stale \in BOOLEAN :
       SuggestionsArrive(answer, stale)
  \/ \E i \in 1..2 : ClickSuggestion(i)
  \/ ClickCreate
  \/ \E i \in 1..MAX_TAGS : ClickRemove(i)

SpecTags == InitTags /\ [][NextTags]_vars

-----------------------------------------------------------------------------
(* Properties of the comment thread (Spec).                                *)

ReplyFailed == event.kind = "replySettled" /\ Truthy(event.result.error)

\* C1: when the reply request fails (replyToComment yields an error), the
\* viewer is shown that error message verbatim and no success notification,
\* and the reply draft and the reply box stay exactly as they were.
C1_ReplyFailureKeepsDraft ==
  ReplyFailed =>
    /\ event.toast = ToastError(Get(event.result.error))
    /\ replyText = event.before.replyText
    /\ showReplyBox = event.before.showReplyBox

\* C2: for create-comment, delete and report, whenever the API result carries
\* an error an error notification is shown, no success notification is shown,
\* and the top-level comment draft is not cleared.
C2_FailedMutationReportsError ==
  (event.kind \in {"createSettled", "deleteSettled", "reportSettled"}
     /\ Truthy(event.result.error)) =>
    /\ event.toast.level = "error"
    /\ event.kind = "createSettled" => newComment = event.before.newComment

\* A submission of the reply box with no reply request outstanding.
ReplySubmitted ==
  \/ event.kind = "handleReply"
  \/ event.kind = "replyBlocked" /\ ~isPending["reply"]

\* C5: a reply request is sent if and only if the draft is non-empty after
\* trimming and the draft's length is at most 500; the content sent is the
\* trimmed draft.
C5_ReplySentIffValid ==
  ReplySubmitted =>
    LET d == event.before.replyText
    IN /\ IsSome(event.sent) <=> (d.body > 0 /\ d.lead + d.body + d.trail <= 500)
       /\ IsSome(event.sent) =>
            /\ Get(event.sent).op = "replyToComment"
            /\ Get(event.sent).content = Draft(0, d.body, 0)
            /\ isPending["reply"]

\* A padded draft of exactly 500 characters was accepted and sent trimmed.
C5_Witness ==
  /\ event.kind = "handleReply"
  /\ event.before.replyText = Draft(1, 498, 1)
  /\ event.sent = Some(Sent("replyToComment", Draft(0, 498, 0), ""))

-----------------------------------------------------------------------------
(* Properties of the render (SpecRender).                                  *)

\* The CommentItem of comment i is evaluated: every ancestor is rendered with
\* its replies shown.
Evaluated(i) ==
  \A a \in Ancestors(tree, i) : ~ReturnsNull(viewer, tree[a]) /\ expanded[a]

\* C3: when a hidden comment is omitted for a viewer who is not its author,
\* each of its replies is still evaluated against the same rule and is
\* rendered if it passes.
C3_RepliesOfOmittedCommentRendered ==
  \A i, k \in DOMAIN tree :
    (/\ tree[k].parent = i
     /\ Evaluated(i)
     /\ ReturnsNull(viewer, tree[i])
     /\ ~ReturnsNull(viewer, tree[k])) => OnScreen(k)

\* C3 (amended): when a hidden comment is omitted for a viewer who is not its
\* author, none of its replies, at any depth, is rendered, whatever their own
\* status and author.
C3_OmittedCommentHidesReplies ==
  \A i \in DOMAIN tree :
    ReturnsNull(viewer, tree[i]) =>
      \A k \in Descendants(tree, i) : ~OnScreen(k)

\* An active reply under an omitted hidden root comment is not on screen.
C3_Witness ==
  \E i, k \in DOMAIN tree :
    /\ tree[i].parent = 0 /\ tree[k].parent = i
    /\ ReturnsNull(viewer, tree[i])
    /\ tree[k].status = "active"
    /\ ~OnScreen(k)

\* C4: a hidden comment, at any depth, is absent from the rendered output for
\* every viewer who is not its author, and present, showing the placeholder
\* instead of its content, for its author.
C4_HiddenShownToAuthorOnly ==
  \A i \in DOMAIN tree :
    tree[i].status = "hidden" =>
      IF isOwner(viewer, tree[i])
        THEN [id |-> i, text |-> HiddenPlaceholder] \in Screen
        ELSE ~OnScreen(i)

\* C4 (amended): a hidden comment is absent for every viewer who is not its
\* author; for its author it is on screen exactly when every ancestor is
\* rendered with its replies shown, and then with the placeholder only.
C4_HiddenShownToAuthorWhenReached ==
  \A i \in DOMAIN tree :
    tree[i].status = "hidden" =>
      IF isOwner(viewer, tree[i])
        THEN /\ OnScreen(i) <=> Evaluated(i)
             /\ \A r \in Screen : r.id = i => r.text = HiddenPlaceholder
        ELSE ~OnScreen(i)

\* A hidden reply is on screen, as the placeholder, for its author.
C4_Witness ==
  \E i \in DOMAIN tree :
    /\ tree[i].parent # 0
    /\ tree[i].status = "hidden"
    /\ isOwner(viewer, tree[i])
    /\ [id |-> i, text |-> HiddenPlaceholder] \in Screen

-----------------------------------------------------------------------------
(* Properties of the API adapter (SpecApi).                                *)

Done == call.pc = "done"
\* The call ended on a 429 response.
RateLimited == Done /\ call.resp.transport = "ok" /\ call.resp.status = 429
\* The call ended on a response, not a 429, whose body is not JSON.
Undecodable ==
  /\ Done /\ call.resp.transport = "ok" /\ call.resp.status # 429
  /\ call.resp.body.kind = "undecodable"
\* The call ended on a response, not a 429, with body {success:false, message:X}.
FailureMessage ==
  /\ Done /\ call.resp.transport = "ok" /\ call.resp.status # 429
  /\ call.resp.body.kind = "envelope"
  /\ ~call.resp.body.success
  /\ IsString(call.resp.body.message)

\* C6: a 429 on any request path invokes the registered handler exactly once,
\* with 30 for 'Retry-After: 30' and undefined without the header, and the
\* call returns the generic error and nothing of the body; one call invokes
\* the handler at most once.
C6_RateLimitHandledOnce ==
  /\ Len(handlerLog) <= 1
  /\ RateLimited =>
       /\ call.result = ErrorResult(TooManyRequests)
       /\ IsSome(call.latest) =>
            /\ Len(handlerLog) = 1
            /\ call.resp.retryAfter = Some(<<"3", "0">>) =>
                 handlerLog[1].retryAfter = Num(30)
            /\ call.resp.retryAfter = Null => handlerLog[1].retryAfter = Undefined

\* The direct fetch of getComments got a 429 with Retry-After: 30.
C6_Witness ==
  /\ RateLimited
  /\ Len(requests) = 2
  /\ call.resp.retryAfter = Some(<<"3", "0">>)
  /\ call.resp.body.message = Str("X")
  /\ Len(handlerLog) = 1 /\ handlerLog[1].retryAfter = Num(30)

\* C7: a 429 invokes only the handler registered last; with no handler
\* registered it still yields the generic error.
C7_LastRegistrationWins ==
  /\ \A k \in 1..Len(handlerLog) :
       IsSome(call.latest) /\ handlerLog[k].handler = Get(call.latest)
  /\ (RateLimited /\ call.latest = Null) =>
       handlerLog = <<>> /\ call.result = ErrorResult(TooManyRequests)

\* A 429 after two registrations invoked the second handler.
C7_Witness ==
  /\ RateLimited
  /\ Len(registrations) = 2
  /\ call.latest = Some(registrations[2])
  /\ Len(handlerLog) = 1 /\ handlerLog[1].handler = registrations[2]

\* C8: apiRequest and apiRequestWithPagination never reject; when the fetch
\* fails in transport or the body cannot be decoded they return the generic
\* network-error message.
C8_NetworkErrorOnTransportOrDecode ==
  (Done /\ call.site.fn \in {"apiRequest", "apiRequestWithPagination"}) =>
    /\ call.result.kind = "resolved"
    /\ (call.resp.transport = "fail" \/ Undecodable) =>
         call.result = ErrorResult(NetworkError)

\* C8 (amended): apiRequest and apiRequestWithPagination never reject; a
\* transport failure gives the generic network-error message, a body that
\* cannot be decoded (on a response other than 429) gives the error
\* 'Invalid response format'.
C8_NeverRejects ==
  (Done /\ call.site.fn \in {"apiRequest", "apiRequestWithPagination"}) =>
    /\ call.result.kind = "resolved"
    /\ call.resp.transport = "fail" => call.result = ErrorResult(NetworkError)
    /\ Undecodable => call.result = ErrorResult(InvalidResponseFormat)

\* apiRequestWithPagination got a 200 whose body is not JSON.
C8_Witness ==
  /\ Undecodable
  /\ call.site.fn = "apiRequestWithPagination"
  /\ call.resp.status = 200
  /\ call.result = ErrorResult(InvalidResponseFormat)

\* C9: for a response, not a 429, with body {success:false, message:X} the
\* adapter returns exactly {error: X}.
C9_FailureMessageVerbatim ==
  FailureMessage => call.result = ErrorResult(call.resp.body.message[2])

\* C9 (amended): ... with X a non-empty string, the adapter returns exactly
\* {error: X}, whatever the status and the body's `error` field.
C9_NonEmptyFailureMessageVerbatim ==
  (FailureMessage /\ call.resp.body.message[2] # "") =>
    call.result = ErrorResult(call.resp.body.message[2])

\* A 200 with {success:false, message:"X", error:"E"} gave {error:"X"}.
C9_Witness ==
  /\ FailureMessage
  /\ call.resp.status = 200
  /\ call.resp.body.message = Str("X")
  /\ call.resp.body.error = Str("E")
  /\ call.result = ErrorResult("X")

\* Headers a caller could pass in options.headers.
CallerHeaders ==
  {NoHeaders,
   [ContentType |-> Some("text/plain"), Authorization |-> Some("Basic caller")]}

\* C10: every request carries 'Authorization: Bearer <t>' if and only if the
\* storage holds a non-empty token t when the request is issued (the token is
\* read again for every request), and headers passed by a caller do not
\* replace the stored token.
C10_BearerTokenAttached ==
  /\ \A k \in 1..Len(requests) :
       requests[k].headers.Authorization =
         IF requests[k].stored # Null /\ requests[k].stored # Some("")
           THEN Some("Bearer " \o requests[k].stored[1])
           ELSE Null
  /\ (authToken # Null /\ authToken # Some("")) =>
       \A h \in CallerHeaders :
         /\ apiRequestHeaders(h, FALSE, authToken).Authorization
              = Some("Bearer " \o authToken[1])
         /\ apiRequestWithPaginationHeaders(h, authToken).Authorization
              = Some("Bearer " \o authToken[1])

\* getComments sent its typed request with the token and, the token having
\* been removed meanwhile, its direct fetch without.
C10_Witness ==
  /\ Len(requests) = 2
  /\ requests[1].headers.Authorization = Some("Bearer t1")
  /\ requests[2].fn = "getComments"
  /\ requests[2].stored = Null
  /\ requests[2].headers.Authorization = Null

-----------------------------------------------------------------------------
(* Properties of the thread under refetch and logout (SpecThread).         *)

\* This step hands a delete request to commentApi.
DeleteIssued == ~isPending["delete"] /\ isPending'["delete"]

C12_ReportOnlyWhenOffered ==
  event.kind = "handleReport" =>
    /\ viewer.isAuthenticated
    /\ ~isOwner(viewer, comment)
    /\ comment.status = "active"
    /\ IsSome(event.sent)
    /\ Get(event.sent).reason \in {"spam", "offensive", "harassment", "other"}

-----------------------------------------------------------------------------
(* Properties of the mutations' outcomes (Spec).                           *)

\* reportMutation's onSuccess ran on a result that carries the comment.
ReportAnswered ==
  /\ event.kind = "reportSettled"
  /\ event.result.kind = "resolved"
  /\ IsSome(event.result.data)

\* C13: the success message after a report is determined by the status the
\* backend returned; the returned report count is never compared with a
\* threshold held by the client.
C13_ReportMessageFromStatusOnly ==
  ReportAnswered =>
    event.toast.text =
      (IF Get(event.result.data).status = "hidden"
         THEN "Comment has been hidden due to multiple reports"
         ELSE "Comment reported successfully")

\* C13 (amended): the success message after a report is determined by the
\* returned status and report count: 'hidden' gives the hidden message,
\* otherwise a returned count equal to 3 gives 'Comment flagged for review',
\* otherwise 'Comment reported successfully'.
C13_ReportMessageFromStatusAndCount ==
  ReportAnswered =>
    LET d == Get(event.result.data)
    IN /\ event.toast.level = "success"
       /\ d.status = "hidden" =>
            event.toast.text = "Comment has been hidden due to multiple reports"
       /\ (d.status # "hidden" /\ d.spam_report_count = 3) =>
            event.toast.text = "Comment flagged for review"
       /\ (d.status # "hidden" /\ d.spam_report_count # 3) =>
            event.toast.text = "Comment reported successfully"

\* The backend answered a report with an active comment and a count of 3.
C13_Witness ==
  /\ ReportAnswered
  /\ Get(event.result.data).status = "active"
  /\ Get(event.result.data).spam_report_count = 3
  /\ event.toast = ToastSuccess("Comment flagged for review")

-----------------------------------------------------------------------------
(* Properties of the reply and comment affordances (SpecThread).           *)

\* An unauthenticated viewer looks at an active comment the server marked
\* repliable.
UnauthenticatedOnRepliable ==
  /\ ~viewer.isAuthenticated
  /\ comment.status = "active"
  /\ comment.canReply

\* C14: an unauthenticated viewer can click Reply on an active comment whose
\* canReply flag is true, and the click is answered by the login prompt and
\* nothing else; no reply request is issued by an unauthenticated viewer.
C14_UnauthenticatedReplyPrompts ==
  /\ UnauthenticatedOnRepliable =>
       /\ ReplyButtonShown
       /\ ENABLED (ClickReply /\ event'.toast = ToastError("Please login to reply"))
  /\ (event.kind = "handleReply" /\ IsSome(event.sent)) => viewer.isAuthenticated

\* A submission of the composer with no create request outstanding.
CommentSubmitted ==
  \/ event.kind = "handleAddComment"
  \/ event.kind = "commentBlocked" /\ ~isPending["create"]

\* C15: a create-comment request is issued only if the viewer is
\* authenticated, the draft is non-empty after trimming and the draft's
\* length is at most 500; an unauthenticated viewer is prompted to log in,
\* and a submission by them sends nothing and leaves the draft as it is.
C15_CommentSentIffValid ==
  /\ CommentSubmitted =>
       LET d == event.before.newComment
       IN /\ IsSome(event.sent) <=>
               /\ viewer.isAuthenticated
               /\ d.body > 0
               /\ d.lead + d.body + d.trail <= 500
          /\ IsSome(event.sent) =>
               /\ Get(event.sent).op = "createComment"
               /\ Get(event.sent).content = Draft(0, d.body, 0)
          /\ newComment = d
  /\ ~viewer.isAuthenticated =>
       /\ Composer = "login"
       /\ \A d \in Drafts :
            handleAddComment(viewer, d)
              = [toast |-> [level |-> "error", text |-> "Please login to comment"],
                 sent |-> Null]

\* A padded comment of exactly 500 characters was accepted and sent trimmed.
C15_Witness ==
  /\ event.kind = "handleAddComment"
  /\ viewer.isAuthenticated
  /\ event.before.newComment = Draft(1, 498, 1)
  /\ event.sent = Some(Sent("createComment", Draft(0, 498, 0), ""))
  /\ newComment = Draft(1, 498, 1)

\* The last step was a mutation settling.
MutationSettled ==
  event.kind \in {"replySettled", "deleteSettled", "reportSettled", "createSettled"}
\* ... with a result that carries no error.
MutationSucceeded ==
  MutationSettled /\ event.result.kind = "resolved" /\ ~Truthy(event.result.error)

\* C16: every successful reply, delete, report and create-comment invalidates
\* the comments query of the owning blog's slug; the query is invalidated
\* only in the step that observes a mutation's response, never before; a
\* successful reply also shows the replies.
C16_InvalidateAfterSuccess ==
  /\ MutationSucceeded => event.invalidated = Some("b1")
  /\ (MutationSucceeded /\ event.kind = "replySettled") => showReplies
  /\ event.kind \in {"handleReply", "handleDelete", "handleReport", "handleAddComment",
                     "replyBlocked", "commentBlocked", "clickReply"} =>
       event.invalidated = Null
  /\ (MutationSettled /\ IsSome(event.invalidated)) =>
       /\ event.result.kind = "resolved"
       /\ event.invalidated = Some("b1")

\* A reply came back with the created comment: query invalidated, replies shown.
C16_Witness ==
  /\ event.kind = "replySettled"
  /\ event.result = DataResult(Some(ObjectPayload))
  /\ event.invalidated = Some("b1")
  /\ showReplies
  /\ ~isPending["reply"]

-----------------------------------------------------------------------------
(* Properties of the displayed comment (SpecThread).                       *)

\* C17: no reply, delete, report or create-comment changes the displayed
\* comment locally: it changes only in a step in which a response to the
\* comments query arrives.
C17_TreeChangesOnlyOnFetch ==
  [][comment' # comment => event'.kind = "refetched"]_vars

\* A delete succeeded and the comment is displayed as before, not deleted.
C17_Witness ==
  /\ event.kind = "deleteSettled"
  /\ event.result.kind = "resolved" /\ ~Truthy(event.result.error)
  /\ event.invalidated = Some("b1")
  /\ comment.status = "active"

-----------------------------------------------------------------------------
(* Properties of the placeholders (SpecRender).                            *)

-----------------------------------------------------------------------------
(* Properties of the reply affordance (SpecThread).                        *)

\* C19: the Reply button and the reply input box of a comment are on screen
\* only while the server's canReply flag is true, the viewer is authenticated
\* and the comment is active, and a reply is sent only then; a comment that
\* is pending review or deleted is rendered all the same.
C19_ReplyAffordanceGated ==
  LET repliable == comment.canReply /\ viewer.isAuthenticated
                     /\ comment.status = "active"
  IN /\ ReplyButtonShown => repliable
     /\ ReplyBoxShown => repliable
     /\ event.kind \in {"handleReply", "replyBlocked"} => repliable
     /\ comment.status \in {"pending_review", "deleted"} => Rendered

\* The box was opened, then the comment came back pending review: it is
\* still rendered, without Reply button and without the box.
C19_Witness ==
  /\ showReplyBox
  /\ viewer.isAuthenticated /\ comment.canReply
  /\ comment.status = "pending_review"
  /\ Rendered
  /\ ~ReplyButtonShown /\ ~ReplyBoxShown

-----------------------------------------------------------------------------
(* Properties of resolveAssetUrl (SpecAsset).                              *)

\* The configured base is an http(s) URL.
HttpBase ==
  /\ API_BASE_URL # Null /\ API_BASE_URL[1] # <<>>
  /\ API_BASE_URL[1][1] \in {"http:", "https:"}
\* No base is configured, or it is not an absolute URL.
NoUsableBase ==
  \/ API_BASE_URL = Null \/ API_BASE_URL[1] = <<>>
  \/ API_BASE_URL[1][1] \notin {"http:", "https:", "HTTP:", "data:"}

\* C20: resolveAssetUrl returns '' for a missing input; an input starting
\* with http:// or https:// unchanged; a relative input resolved against the
\* configured base (the base's scheme and host, then a path ending with the
\* input's); the input itself when no base is configured or the resolution
\* fails; and, when the base is an http(s) URL, applying it to its own result
\* gives that result again.
C20_ResolveAssetUrl ==
  asset.pc # "idle" =>
    LET a == asset.assetUrl
        given == a # Null /\ a[1] # <<>>
        absolute == given /\ a[1][1] \in {"http:", "https:", "HTTP:", "data:"}
        plain == given /\ ~absolute /\ a[1][1] \notin {"//", ".."}
    IN /\ ~given => asset.once = <<>>
       /\ (given /\ a[1][1] \in {"http:", "https:"} /\ a[1][2] = "//") =>
            asset.once = a[1]
       /\ (given /\ ~absolute /\ HttpBase) =>
            /\ asset.once[1] = API_BASE_URL[1][1]
            /\ asset.once[2] = "//"
            /\ a[1][1] # "//" => asset.once[3] = API_BASE_URL[1][3]
       /\ (plain /\ HttpBase) =>
            /\ Len(asset.once) >= 3 + Len(a[1])
            /\ SubSeq(asset.once, Len(asset.once) - Len(a[1]) + 1, Len(asset.once)) = a[1]
            /\ a[1][1] = "/" => Len(asset.once) = 3 + Len(a[1])
       /\ (given /\ NoUsableBase) => asset.once = a[1]
       /\ (asset.pc = "twice" /\ HttpBase) => asset.twice = asset.once

\* 'uploads/a.png' against 'https://api.test/api/v1', then resolved again.
C20_Witness ==
  /\ asset.pc = "twice"
  /\ API_BASE_URL = Some(<<"https:", "//", "api.test", "/", "api", "/", "v1">>)
  /\ asset.assetUrl = Some(<<"uploads", "/", "a.png">>)
  /\ asset.once = <<"https:", "//", "api.test", "/", "api", "/", "uploads", "/", "a.png">>
  /\ asset.twice = asset.once

-----------------------------------------------------------------------------
(* Properties of the returned objects (SpecTransform).                     *)

\* The avatar URLs of a comment and of its replies at every depth, each as
\* the pair of what the backend sent and what the adapter returned.
RECURSIVE CommentAvatars(_, _)
CommentAvatars(sent, returned) ==
  {<<Field(sent.author, "avatar"),
     IF returned.author.avatar = Null THEN <<>> ELSE Get(returned.author.avatar)>>}
  \cup UNION {CommentAvatars(Get(sent.replies)[i], returned.replies[i]) :
                i \in 1..Len(returned.replies)}

\* The avatar and cover URLs of the object just returned, as such pairs.
ReturnedUrls ==
  CASE transformed.fn = "transformAuthUser" ->
         {<<Field(transformed.input, "avatar"), transformed.output.avatar>>}
    [] transformed.fn = "transformBlog" ->
         {<<transformed.input.cover_image, transformed.output.coverImage>>,
          <<Field(transformed.input.user_id, "avatar"),
            transformed.output.author.avatar>>}
    [] transformed.fn = "transformComment" ->
         CommentAvatars(transformed.input, transformed.output)
    [] OTHER -> {}

\* A URL the backend sent in relative form.
SentRelative(a) == ~Falsy(a) /\ Get(a)[1] \notin SchemeTokens

\* C21: with an http(s) base configured, every avatar and cover-image URL the
\* backend sends in relative form comes back resolved against the base, as
\* an absolute URL, in every object the adapter returns: a Blog, a
\* UserProfile, a Comment at any depth.
C21_EveryRelativeUrlResolved ==
  HttpBase =>
    \A p \in ReturnedUrls :
      SentRelative(p[1]) =>
        /\ p[2] = resolveAssetUrl(p[1], API_BASE_URL)
        /\ p[2][1] = API_BASE_URL[1][1]
        /\ p[2][2] = "//"

-----------------------------------------------------------------------------
(* Properties of the feed (SpecFeed).                                      *)

\* C22: choosing a tag (handleTagSelect) sets the active tag, puts the page
\* back to 1 and empties the accumulated list in one step, in which no
\* response is applied: the fetch for the new filter starts with that step
\* at the earliest.  Clearing the filter (clearTagFilter) does the same with
\* the empty tag.
C22_FilterChangeResets ==
  [][(feed' # feed /\ feed'.event.kind \in {"handleTagSelect", "clearTagFilter"}) =>
       /\ feed'.selectedTag = feed'.event.key[2]
       /\ feed'.event.kind = "clearTagFilter" => feed'.selectedTag = ""
       /\ feed'.page = 1
       /\ feed'.blogs = <<>>
       /\ feed'.cache = feed.cache
       /\ feed'.inflight \in {feed.inflight, feed.inflight \cup {<<1, feed'.selectedTag>>}}
    ]_vars

\* With both pages of the unfiltered feed loaded, the tag cats was chosen:
\* the list is empty and the fetch of its first page is out.
C22_Witness ==
  /\ feed.event.kind = "handleTagSelect"
  /\ feed.selectedTag = "cats"
  /\ IsSome(feed.cache[<<2, "">>])
  /\ feed.page = 1
  /\ feed.blogs = <<>>
  /\ <<1, "cats">> \in feed.inflight

\* C23: a response for an earlier (page, tag) that settles after the page or
\* the tag has changed is neither aborted nor discarded: a fetch in flight
\* ends only by settling, and its blogs are written into the one list
\* according to its own page (page 1 replaces, a later page appends),
\* whatever the current page and tag are.
C23_StaleResponseApplied ==
  [][/\ (feed' # feed /\ feed'.event.kind = "resolved") =>
          /\ feed'.event.key \in feed.inflight
          /\ feed'.blogs =
               IF feed'.event.key[1] = 1
                 THEN <<Blog(feed'.event.key[2], 1)>>
                 ELSE Append(feed.blogs, Blog(feed'.event.key[2], feed'.event.key[1]))
     /\ \A key \in feed.inflight :
          \/ key \in feed'.inflight
          \/ feed'.event.kind \in {"resolved", "failed"} /\ feed'.event.key = key
    ]_vars

\* The response for another key than the current one has settled, and the
\* list holds a blog that is not of the current tag.
C23_Witness ==
  /\ feed.event.kind = "resolved"
  /\ feed.event.key # <<feed.page, feed.selectedTag>>
  /\ feed.event.key[2] # feed.selectedTag
  /\ \E i \in 1..Len(feed.blogs) : feed.blogs[i][1] # feed.selectedTag

\* C26: while the tag filter is never changed, the accumulated list, once
\* the current page's data is loaded and no fetch is out, is the pages 1 to
\* the current page in order, each once, after any sequence of loadMore and
\* refetches; and loadMore adds exactly 1 to the page, only when the current
\* page's data is loaded and the page is below totalPages.
C26_ListIsPagesInOrder ==
  /\ [](( ~feed.filtered /\ IsSome(FeedData) /\ feed.inflight = {}) =>
          feed.blogs = [p \in 1..feed.page |-> Blog("", p)])
  /\ [][(feed'.page # feed.page /\ feed'.event.kind = "loadMore") =>
          /\ feed'.page = feed.page + 1
          /\ IsSome(feed.cache[<<feed.page, feed.selectedTag>>])
          /\ feed.page < Get(feed.cache[<<feed.page, feed.selectedTag>>])
       ]_vars

-----------------------------------------------------------------------------
(* Properties of the render over time (SpecClock).                         *)

\* Two renders of the thread have happened.
RenderedTwice == clock.first # Null /\ clock.last # Null

\* C24: rendering is deterministic: with the same comment tree, viewer and
\* UI state, two renders give identical output, the displayed time labels
\* included.
C24_RenderDeterministic ==
  RenderedTwice =>
    /\ Get(clock.first).screen = Get(clock.last).screen
    /\ Get(clock.first).label = Get(clock.last).label

\* The label formatDate shows for a comment created at `date` when rendered
\* at `at`: 'just now' under a minute (and for a date ahead of the clock),
\* whole minutes under an hour, whole hours under a day, whole days under a
\* week, then the date, with its year when that is not the current year.
LabelAt(date, at) ==
  CASE date = InvalidDate -> [kind |-> "Invalid Date", n |-> 0, year |-> Null]
    [] date # InvalidDate /\ at - date < 60 ->
         [kind |-> "just now", n |-> 0, year |-> Null]
    [] date # InvalidDate /\ at - date \in 60..3599 ->
         [kind |-> "m ago", n |-> (at - date) \div 60, year |-> Null]
    [] date # InvalidDate /\ at - date \in 3600..86399 ->
         [kind |-> "h ago", n |-> (at - date) \div 3600, year |-> Null]
    [] date # InvalidDate /\ at - date \in 86400..604799 ->
         [kind |-> "d ago", n |-> (at - date) \div 86400, year |-> Null]
    [] OTHER ->
         [kind |-> "date", n |-> (date % 31536000) \div 86400,
          year |-> IF date \div 31536000 # at \div 31536000
                     THEN Some(date \div 31536000) ELSE Null]

\* C24 (amended): with the same comment tree, viewer and UI state, two
\* renders show the same comments with the same text, and the same time
\* labels when they happen at the same time; a time label is determined by
\* the comment's creation time and the time of the render, so renders at
\* different times may show different labels.
C24_RenderDeterministicAtATime ==
  RenderedTwice =>
    LET f == Get(clock.first)
        l == Get(clock.last)
    IN /\ f.screen = l.screen
       /\ f.at = l.at => f.label = l.label
       /\ \A r \in l.screen :
            /\ f.label[r] = LabelAt(clock.createdAt[r.id], f.at)
            /\ l.label[r] = LabelAt(clock.createdAt[r.id], l.at)

\* A comment created 30 seconds before the first render is 'just now' in
\* it and '1m ago' in a render 30 seconds later.
C24_Witness ==
  /\ RenderedTwice
  /\ clock.createdAt[1] = FirstRenderAt - 30
  /\ Get(clock.last).at = Get(clock.first).at + 30
  /\ \E r \in Screen :
       /\ r.id = 1
       /\ Get(clock.first).label[r].kind = "just now"
       /\ Get(clock.last).label[r] = [kind |-> "m ago", n |-> 1, year |-> Null]

-----------------------------------------------------------------------------
(* Properties of the exported operations (SpecOps).                        *)

\* C25: every exported operation resolves, for any status and any body, a
\* success envelope without data included, to an object with exactly one of
\* `data` and a non-empty `error`: it never rejects and never returns an
\* empty error.
C25_DataOrErrorNeverRejects ==
  settled.name # "none" =>
    /\ settled.result.kind = "resolved"
    /\ IsSome(settled.result.data) # IsSome(settled.result.error)
    /\ IsSome(settled.result.error) => Get(settled.result.error) # ""

-----------------------------------------------------------------------------
(* Properties of the forms (SpecForm).                                     *)

\* C27: on the Login, Register, Write and MyProfile forms, while one
\* submission is outstanding, further submit actions issue no second
\* request: at most one request of the form is in flight, and no step taken
\* while one is in flight adds another.
C27_OneSubmissionAtATime ==
  /\ [](form.inflight <= 1)
  /\ [][form.inflight > 0 => form'.inflight <= form.inflight]_vars

\* The button was pressed again while the request was out: nothing was sent.
C27_Witness ==
  /\ form.event.kind = "ignored"
  /\ form.page = "Write"
  /\ form.loading
  /\ form.inflight = 1

\* C28: on Login and Register, every submission whose request completes,
\* whatever the outcome (a success envelope without data included), returns
\* the loading flag to false.
C28_LoadingFlagReturns ==
  (form.page \in {"Login", "Register"} /\ form.event.kind = "settled") => ~form.loading

-----------------------------------------------------------------------------
(* Properties of the blog detail page (SpecDetail).                        *)

\* The identifier the backend sent for the viewer and for the blog's
\* author: Null when it sent none.
SentViewerId ==
  IF detail.sentUser = Null THEN Null
  ELSE OrElse(OrElse(Get(detail.sentUser).id, Get(detail.sentUser)._id), Null)
SentAuthorId ==
  IF detail.sentBlog = Null \/ Get(detail.sentBlog).user_id = Null THEN Null
  ELSE OrElse(OrElse(Get(Get(detail.sentBlog).user_id)._id,
                     Get(Get(detail.sentBlog).user_id).id), Null)

\* The page has loaded a blog whose status is draft, pending_approval or
\* rejected.
PrivateBlogLoaded ==
  /\ ~detail.authLoading /\ ~detail.isLoading /\ detail.blog # Null
  /\ Get(detail.sentBlog).status \in {Some("draft"), Some("pending_approval"), Some("rejected")}

\* C29: a draft, pending_approval or rejected blog is shown only to an
\* authenticated viewer whose backend user id equals the blog's backend
\* author id; everyone else gets 'Blog not found', in particular when either
\* id is missing.
C29_PrivateBlogOnlyForOwner ==
  PrivateBlogLoaded =>
    BlogDetailRender(detail, viewer) =
      (IF /\ viewer.isAuthenticated
          /\ SentViewerId # Null /\ SentAuthorId # Null
          /\ SentViewerId = SentAuthorId
         THEN "article" ELSE "Blog not found")

-----------------------------------------------------------------------------
(* Properties of TagInput (SpecTags).                                      *)

\* C30: starting from the empty list, after any sequence of typing,
\* suggestion clicks, Enter / comma / space, Backspace and removals, the
\* list never holds more than maxTags (5) tags, holds no tag twice, and
\* every tag is non-empty, trimmed and lower-case; at capacity, adding
\* changes nothing.
C30_TagListWellFormed ==
  /\ Len(tagInput.value) <= 5
  /\ \A i, j \in 1..Len(tagInput.value) :
       tagInput.value[i] = tagInput.value[j] => i = j
  /\ \A i \in 1..Len(tagInput.value) :
       LET tag == tagInput.value[i]
       IN /\ tag # <<>>
          /\ tag[1] # " " /\ tag[Len(tag)] # " "
          /\ \A k \in 1..Len(tag) : tag[k] \notin {"A", "B"}
  /\ Len(tagInput.value) = 5 =>
       /\ \A raw \in RawInputs : addTag(tagInput, raw) = tagInput
       /\ \A key \in {"Enter", ",", " "} : handleKeyDown(tagInput, key) = tagInput

\* Five tags are on the list, among them 'a b' and the 'ab' that was
\* entered as 'Ab', and the input is disabled.
C30_Witness ==
  /\ Len(tagInput.value) = 5
  /\ includes(tagInput.value, <<"a", "b">>)
  /\ includes(tagInput.value, <<"a", " ", "b">>)
  /\ InputDisabled(tagInput)

====
